---------------------------- MODULE Spec2Model ----------------------------
(***************************************************************************)
(* VibeFlagger: the scoring engine (calculateVibeScore, getHealthStatus)   *)
(* and the SQLite persistence layer of src/src/database/db.ts, with the    *)
(* screens that write to the database directly.                            *)
(***************************************************************************)
EXTENDS Integers, Sequences, FiniteSets, TLC

VARIABLES
    \* ---- the scoring engine's calls (pure functions) ----
    logsArg,        \* the LogEntry[] handed to calculateVibeScore
    vibeScore,      \* what calculateVibeScore returned for logsArg
    scoreArg,       \* the number handed to getHealthStatus
    healthStatus,   \* what getHealthStatus returned for scoreArg
    dashboard,      \* DashboardScreen: recentLogs, vibeScore, climate
    \* ---- the database file vibeflagger.db ----
    profiles,       \* rows of table profiles
    logs,           \* rows of table logs
    sqlite_sequence,\* AUTOINCREMENT counters: [profiles |-> n, logs |-> n]
    foreign_keys,   \* PRAGMA foreign_keys of the connection (never set by the code)
    \* ---- the process ----
    db,             \* db.ts line 3: the module's handle, NULL or <<"open">>
    now,            \* the wall clock read by new Date()
    result,         \* outcome of the last database call: "ok" or the SQLite error
    \* ---- reading the database ----
    orderOfTies,    \* how this SQLite build orders rows whose ORDER BY keys are equal
    returned,       \* what the last call returned, if it was a query
    \* ---- the services ----
    customerInfo,   \* what Purchases.getCustomerInfo() answers at present
    lastApiCall,    \* the last call of callAnthropicAPI, if any
    \* ---- concurrent callers of getDatabase() ----
    pc,             \* where each caller stands in getDatabase()
    openCount,      \* how often openDatabaseAsync has resolved in this process
    initCount,      \* how often initializeDatabase has completed in this process
    received,       \* what each caller was handed
    \* ---- what the user has deleted (history) ----
    deletedNames,   \* names of the profiles deleted and not created again by the user
    detachedLogs,   \* the logs of those profiles, with the reference deleteProfile left
    \* ---- the screens ----
    screen,         \* the screen or modal the user is on
    limitCheck,     \* what the last checkLimit of the present flow returned
    lastInsert,     \* the last row a screen inserted, and the check it followed
    lastReport,     \* the last PDF generated, and the check it followed
    \* ---- the subscription store ----
    store,          \* useSubscriptionStore: tier, limits, isLoading
    cache,          \* AsyncStorage item vibeflagger_subscription_tier
    lastStoreCall,  \* the last call of the store that completed, and what it met
    \* ---- the PIN lock ----
    pinStorage,     \* AsyncStorage item vibeflagger_pin
    authStore,      \* useAuthStore: isAuthenticated, pin
    pinScreens,     \* the route, the pending loadPin, the digits entered so far
    pinHistory      \* the PIN stored at launch; the entry that unlocked the app

scoringVars == <<logsArg, vibeScore, scoreArg, healthStatus, dashboard>>
dbVars == <<profiles, logs, sqlite_sequence, foreign_keys, db, now, result>>
readVars == <<orderOfTies, returned>>
serviceVars == <<customerInfo, lastApiCall>>
openVars == <<pc, openCount, initCount, received>>
deletedVars == <<deletedNames, detachedLogs>>
screenVars == <<screen, limitCheck, lastInsert, lastReport>>
storeVars == <<store, cache, lastStoreCall>>
authVars == <<pinStorage, authStore, pinScreens, pinHistory>>
appVars == <<openVars, deletedVars, screenVars, storeVars, authVars>>
vars == <<logsArg, vibeScore, scoreArg, healthStatus, dashboard,
          profiles, logs, sqlite_sequence, foreign_keys, db, now, result,
          orderOfTies, returned, customerInfo, lastApiCall,
          pc, openCount, initCount, received, deletedNames, detachedLogs,
          screen, limitCheck, lastInsert, lastReport, store, cache, lastStoreCall,
          pinStorage, authStore, pinScreens, pinHistory>>

\* SQL NULL / JavaScript null and undefined: an absent value is the empty
\* tuple, a present value v is <<v>>.
NULL == << >>
undefined == << >>

\* no query has returned since the last write
NoReturn == [op |-> "none"]

\* callAnthropicAPI has not been called
NoCall == [caller |-> "none"]

\* Purchases.getCustomerInfo() of a user without entitlements
NoEntitlements == [throws |-> FALSE, active |-> {}]

(***************************************************************************)
(* Bounds of the model.                                                    *)
(***************************************************************************)
MaxLogsArg == 2          \* longest LogEntry[] handed to calculateVibeScore
MaxProfileRows == 2      \* profiles ever inserted (AUTOINCREMENT never reuses an id)
MaxLogRows == 2          \* logs ever inserted
MaxClock == 1            \* last reading of the clock
MaxCurrentCount == 26    \* largest currentCount handed to canPerformAction
MaxAILogs == 6           \* longest log sequence handed to the AI service
MaxCallers == 2          \* concurrent callers of getDatabase()

\* the parts of the app that a specification leaves at rest
Callers == 1..MaxCallers
NoCallers ==
    /\ pc = [c \in Callers |-> "idle"]
    /\ openCount = 0 /\ initCount = 0
    /\ received = [c \in Callers |-> "nothing"]
NothingDeleted == deletedNames = {} /\ detachedLogs = {}
NoCheck == [action |-> "none"]
NoInsert == [table |-> "none"]
NoReport == [generator |-> "none"]
NoScreen ==
    /\ screen = "none" /\ limitCheck = NoCheck
    /\ lastInsert = NoInsert /\ lastReport = NoReport
NoStoreCall == [fn |-> "none"]
NoStore == store = << >> /\ cache = NULL /\ lastStoreCall = NoStoreCall
\* DashboardScreen's useState values before loadData has run
DashboardMounted == [recentLogs |-> << >>, vibeScore |-> 0, climate |-> "Angelic"]
NoLock ==
    /\ pinStorage = NULL /\ authStore = << >>
    /\ pinScreens = << >> /\ pinHistory = << >>
AppAtRest == NoCallers /\ NothingDeleted /\ NoScreen /\ NoStore /\ NoLock

(***************************************************************************)
(* Domains fixed by the program.                                           *)
(***************************************************************************)
LogType == {"GREEN", "YELLOW", "RED"}
MinSeverity == 1
MaxSeverity == 10
Severity == MinSeverity..MaxSeverity

(***************************************************************************)
(* JavaScript numbers are IEEE-754 binary64: a sign, 53 significant bits   *)
(* and an exponent.  A non-zero number is [neg, hi, mid, lo, exp]: its     *)
(* significand is hi * 2^34 + mid * 2^16 + lo, with hi its top 19 bits     *)
(* (2^18 <= hi < 2^19), mid the next 18 and lo the last 16, and exp is the *)
(* exponent of the leading bit, so that the value is                       *)
(*     significand * 2^(exp - 52).                                         *)
(* Zero has hi = 0.  Division and multiplication round the exact result to *)
(* the nearest representable number, ties to even (the limbs keep every    *)
(* intermediate integer below 2^31).                                       *)
(***************************************************************************)
HiLimb  == 2^18      \* weight of the leading bit inside hi
MidLimb == 2^18      \* mid < MidLimb
LoLimb  == 2^16      \* lo < LoLimb

FloatZero == [neg |-> FALSE, hi |-> 0, mid |-> 0, lo |-> 0, exp |-> 0]

\* Round to nearest, ties to even: the 53 bits (hi, mid, lo), then one guard
\* bit, then "sticky" (something non-zero lies below the guard bit).
RoundNearestEven(neg, hi, mid, lo, guard, sticky, exp) ==
    LET up     == guard = 1 /\ (sticky \/ lo % 2 = 1)
        lo1    == IF up THEN lo + 1 ELSE lo
        mid1   == IF lo1 = LoLimb THEN mid + 1 ELSE mid
        hi1    == IF mid1 = MidLimb THEN hi + 1 ELSE hi
        carry  == hi1 = 2 * HiLimb
    IN  [neg |-> neg,
         hi  |-> IF carry THEN HiLimb ELSE hi1,
         mid |-> mid1 % MidLimb,
         lo  |-> lo1 % LoLimb,
         exp |-> IF carry THEN exp + 1 ELSE exp]

\* scale n/d into [1, 2): d <= n < 2d, and n/d * 2^exp is the quotient
RECURSIVE Normalize(_, _, _)
Normalize(n, d, e) ==
    IF n < d THEN Normalize(2 * n, d, e - 1)
    ELSE IF n >= 2 * d THEN Normalize(n, 2 * d, e + 1)
    ELSE [n |-> n, d |-> d, exp |-> e]

\* the binary64 quotient x / y of two numbers whose exact ratio is n/d
\* (n any integer, 0 < d < 2^12): long division, 18 + 18 + 17 bits after
\* the leading one, the last of them the guard bit.
FloatDiv(n, d) ==
    IF n = 0 THEN FloatZero
    ELSE LET a  == IF n < 0 THEN -n ELSE n
             s  == Normalize(a, d, 0)
             r0 == s.n - s.d
             c1 == (r0 * 2^18) \div s.d
             r1 == (r0 * 2^18) % s.d
             c2 == (r1 * 2^18) \div s.d
             r2 == (r1 * 2^18) % s.d
             c3 == (r2 * 2^17) \div s.d
             r3 == (r2 * 2^17) % s.d
         IN  RoundNearestEven(n < 0, HiLimb + c1, c2, c3 \div 2,
                              c3 % 2, r3 # 0, s.exp)

RECURSIVE BitLength(_)
BitLength(n) == IF n = 0 THEN 0 ELSE 1 + BitLength(n \div 2)

\* the binary64 product x * k, k an integer with 2 <= k < 2^12: the exact
\* product has s = 1..12 bits more than 53, which are rounded away.
FloatMul(x, k) ==
    IF x.hi = 0 THEN x
    ELSE LET pl  == x.lo * k
             pm  == x.mid * k + pl \div LoLimb
             pt  == x.hi * k + pm \div MidLimb
             Lo  == pl % LoLimb
             Mi  == pm % MidLimb
             s   == BitLength(pt) - 19
             cut == Lo % 2^s
         IN  RoundNearestEven(x.neg,
                              pt \div 2^s,
                              (pt % 2^s) * 2^(18 - s) + Mi \div 2^s,
                              (Mi % 2^s) * 2^(16 - s) + Lo \div 2^s,
                              cut \div 2^(s - 1),
                              cut % 2^(s - 1) # 0,
                              x.exp + s)

\* Math.round of a number of magnitude below 2^18: the nearest integer, a
\* tie going towards +Infinity
MathRound(x) ==
    IF x.hi = 0 THEN 0
    ELSE LET unit  == 2^(18 - x.exp)         \* weight of 1 inside hi (exp >= 0)
             int   == IF x.exp < 0 THEN 0 ELSE x.hi \div unit
             frac  == IF x.exp < 0 THEN 0 ELSE x.hi % unit
             half  == IF x.exp < -1 THEN 0
                      ELSE IF x.exp = -1 THEN 1
                      ELSE frac \div (unit \div 2)
             below == IF x.exp < -1 THEN TRUE
                      ELSE IF x.exp = -1
                      THEN x.hi # HiLimb \/ x.mid # 0 \/ x.lo # 0
                      ELSE frac % (unit \div 2) # 0 \/ x.mid # 0 \/ x.lo # 0
         IN  IF ~x.neg THEN int + half
             ELSE -(int + (IF half = 1 /\ below THEN 1 ELSE 0))

Max(a, b) == IF a >= b THEN a ELSE b
Min(a, b) == IF a <= b THEN a ELSE b

Front(s) == SubSeq(s, 1, Len(s) - 1)
Last(s) == s[Len(s)]

(***************************************************************************)
(* calculateVibeScore (db.ts 253-276).  toxicitySum is kept in halves      *)
(* (twice its value): every term is a multiple of 0.5 of magnitude far     *)
(* below 2^52, so the additions of lines 261-267 are exact in binary64.    *)
(***************************************************************************)
RECURSIVE toxicitySumHalves(_)
toxicitySumHalves(logsList) ==
    IF logsList = << >> THEN 0
    ELSE LET log == Last(logsList)
             term == CASE log.type = "RED"    -> 2 * log.severity
                       [] log.type = "YELLOW" -> log.severity
                       [] log.type = "GREEN"  -> -(2 * log.severity)
                       [] OTHER               -> 0
         IN  toxicitySumHalves(Front(logsList)) + term

\* mutant: the maximum per entry taken as 5
maxPossibleToxicity_five(logsList) == Len(logsList) * 5

maxPossibleToxicity(logsList) == Len(logsList) * 10

\* (toxicitySum / maxPossibleToxicity) * 100, in binary64
toxicityPercentage(logsList) ==
    FloatMul(FloatDiv(toxicitySumHalves(logsList), 2 * maxPossibleToxicity(logsList)), 100)

calculateVibeScore(logsList) ==
    IF Len(logsList) = 0 THEN 0
    ELSE Max(0, Min(100, MathRound(toxicityPercentage(logsList))))

(***************************************************************************)
(* getHealthStatus (db.ts 278-284)                                         *)
(***************************************************************************)
\* mutant: the Critical test made non-strict
getHealthStatus_closed(score) ==
    IF score >= 75 THEN "Critical"
    ELSE IF score >= 50 THEN "Toxic"
    ELSE IF score >= 25 THEN "Concerning"
    ELSE IF score > 0 THEN "Stable"
    ELSE "Thriving"

getHealthStatus(score) ==
    IF score > 75 THEN "Critical"
    ELSE IF score >= 50 THEN "Toxic"
    ELSE IF score >= 25 THEN "Concerning"
    ELSE IF score > 0 THEN "Stable"
    ELSE "Thriving"

(***************************************************************************)
(* The scoring code of the screens.  ProfileDetailScreen declares its own  *)
(* calculateVibeScore and getHealthStatus (ProfileDetailScreen.tsx         *)
(* 433-462); DashboardScreen.loadData imports calculateVibeScore from      *)
(* db.ts and chooses the climate label with its own chain of tests         *)
(* (DashboardScreen.tsx 143-166).                                          *)
(***************************************************************************)
\* the loop of ProfileDetailScreen.tsx 436-449, front to back, in halves
RECURSIVE ProfileDetail_toxicitySumHalves(_, _)
ProfileDetail_toxicitySumHalves(logsList, toxicitySum) ==
    IF logsList = << >> THEN toxicitySum
    ELSE LET log == Head(logsList)
         IN  ProfileDetail_toxicitySumHalves(Tail(logsList),
                CASE log.type = "RED"    -> toxicitySum + 2 * log.severity
                  [] log.type = "YELLOW" -> toxicitySum + log.severity
                  [] log.type = "GREEN"  -> toxicitySum - 2 * log.severity
                  [] OTHER               -> toxicitySum)

ProfileDetail_calculateVibeScore(logsList) ==
    IF Len(logsList) = 0 THEN 0
    ELSE LET toxicitySum == ProfileDetail_toxicitySumHalves(logsList, 0)
             maxPossible == Len(logsList) * 10
             percentage  == FloatMul(FloatDiv(toxicitySum, 2 * maxPossible), 100)
         IN  Max(0, Min(100, MathRound(percentage)))

\* mutant: the Stable test made non-strict
ProfileDetail_getHealthStatus_zeroStable(score) ==
    IF score > 75 THEN "Critical"
    ELSE IF score >= 50 THEN "Toxic"
    ELSE IF score >= 25 THEN "Concerning"
    ELSE IF score >= 0 THEN "Stable"
    ELSE "Thriving"

ProfileDetail_getHealthStatus(score) ==
    IF score > 75 THEN "Critical"
    ELSE IF score >= 50 THEN "Toxic"
    ELSE IF score >= 25 THEN "Concerning"
    ELSE IF score > 0 THEN "Stable"
    ELSE "Thriving"

\* DashboardScreen.tsx 153-165
Dashboard_climate(recentLogs, score) ==
    IF Len(recentLogs) = 0 THEN "Angelic"
    ELSE IF score > 75 THEN "CRITICAL: TOXIC"
    ELSE IF score >= 50 THEN "Toxic"
    ELSE IF score >= 25 THEN "Concerning"
    ELSE IF score > 0 THEN "Healthy"
    ELSE "Angelic"

(***************************************************************************)
(* The scoring engine as a state machine: a call of calculateVibeScore on  *)
(* a sequence grown one entry at a time, or a call of getHealthStatus.     *)
(***************************************************************************)
ScoreInputs == 0..100

InitScoring ==
    /\ logsArg = << >>
    /\ vibeScore = calculateVibeScore(<< >>)
    /\ scoreArg = 0
    /\ healthStatus = getHealthStatus(0)
    /\ dashboard = DashboardMounted
    /\ profiles = {} /\ logs = {}
    /\ sqlite_sequence = [profiles |-> 0, logs |-> 0]
    /\ foreign_keys = FALSE /\ db = NULL /\ now = 0 /\ result = "none"
    /\ orderOfTies = "ASC" /\ returned = NoReturn
    /\ customerInfo = NoEntitlements /\ lastApiCall = NoCall
    /\ AppAtRest

\* calculateVibeScore(logsArg with one more entry)
CallCalculateVibeScore ==
    /\ Len(logsArg) < MaxLogsArg
    /\ scoreArg = 0
    /\ \E t \in LogType, s \in Severity :
          /\ logsArg' = Append(logsArg, [type |-> t, severity |-> s])
          /\ vibeScore' = calculateVibeScore(logsArg')
    /\ UNCHANGED <<scoreArg, healthStatus, dashboard>>
    /\ UNCHANGED <<dbVars, readVars, serviceVars, appVars>>

\* getHealthStatus(score)
CallGetHealthStatus ==
    /\ logsArg = << >>
    /\ \E score \in ScoreInputs :
          /\ scoreArg' = score
          /\ healthStatus' = getHealthStatus(score)
    /\ UNCHANGED <<logsArg, vibeScore, dashboard>>
    /\ UNCHANGED <<dbVars, readVars, serviceVars, appVars>>

NextScoring == CallCalculateVibeScore \/ CallGetHealthStatus

SpecScoring == InitScoring /\ [][NextScoring]_vars

(***************************************************************************)
(* The database.  A profile row is [id, name, relationship, created_at], a *)
(* log row [id, timestamp, person, profile_id, type, severity, category,   *)
(* notes]; profile_id and notes are NULL or <<value>>.                     *)
(***************************************************************************)
ProfileNames == {"Alex", "Sam"}
RelationshipType == {"Partner"}
LogCategory == {"Trust"}

\* what a caller may hand to insertLog as (type, severity): a valid entry
\* and the values next to the schema's limits
EntryInputs == { <<"RED", 10>>, <<"BLUE", 5>>, <<"RED", 0>>, <<"RED", 11>> }
ProfileIdInputs == {undefined} \cup {<<i>> : i \in 0..MaxProfileRows}
NotesInputs == {undefined}

\* what the user may type into a name field, and String.prototype.trim
NameInputs == {"Alex", "Alex ", "Sam", " "}
trim(str) == CASE str = "Alex " -> "Alex"
               [] str = " "     -> ""
               [] OTHER         -> str

\* JavaScript's  x || null  on an optional number / string
NumberOrNull(x) == IF x = undefined \/ x = <<0>> THEN NULL ELSE x
StringOrNull(x) == IF x = undefined \/ x = <<"">> THEN NULL ELSE x

Database == [profiles |-> profiles, logs |-> logs, seq |-> sqlite_sequence]

\* ---- the schema's constraints (initializeDatabase, db.ts 15-42) ----

\* mutant: the column declared without UNIQUE
UniqueName_off(D, name, id) == TRUE

\* profiles.name ... UNIQUE: no row other than `id` holds `name`
UniqueName(D, name, id) == ~\E p \in D.profiles : p.id # id /\ p.name = name

\* CHECK(type IN ('GREEN', 'YELLOW', 'RED'))
CheckType(type) == type \in {"GREEN", "YELLOW", "RED"}

\* mutant: the CHECK without its upper limit
CheckSeverity_noUpper(severity) == severity >= 1

\* CHECK(severity >= 1 AND severity <= 10)
CheckSeverity(severity) == severity >= 1 /\ severity <= 10

\* profile_id INTEGER REFERENCES profiles(id): enforced only by a connection
\* with PRAGMA foreign_keys = ON
ReferencesProfile(D, fk, profile_id) ==
    fk /\ profile_id # NULL => \E p \in D.profiles : <<p.id>> = profile_id

\* ... ON DELETE SET NULL: what becomes of the logs when profile `id` goes,
\* again only with foreign_keys = ON
OnDeleteSetNull(L, fk, id) ==
    IF fk
    THEN {IF l.profile_id = <<id>> THEN [l EXCEPT !.profile_id = NULL] ELSE l : l \in L}
    ELSE L

\* ---- the SQL statements the code runs; each is atomic ----

\* INSERT INTO profiles (name, relationship, created_at) VALUES (?, ?, ?)
InsertProfile(D, name, relationship, created_at) ==
    IF ~UniqueName(D, name, 0)
    THEN [D |-> D, result |-> "SQLITE_CONSTRAINT_UNIQUE", lastInsertRowId |-> 0]
    ELSE LET id == D.seq.profiles + 1
         IN  [D |-> [D EXCEPT !.profiles = @ \cup
                            {[id |-> id, name |-> name,
                              relationship |-> relationship,
                              created_at |-> created_at]},
                        !.seq.profiles = id],
              result |-> "ok", lastInsertRowId |-> id]

\* mutant: the UPDATE replaces the row that holds the name (UPDATE OR REPLACE)
\* instead of failing
UpdateProfile_unchecked(D, id, name, relationship) ==
    [D |-> [D EXCEPT !.profiles =
              {IF p.id # id THEN p
               ELSE [p EXCEPT
                       !.name = IF name # undefined THEN name[1] ELSE @,
                       !.relationship = IF relationship # undefined
                                        THEN relationship[1] ELSE @]
               : p \in D.profiles}],
     result |-> "ok"]

\* mutant: the rename is carried over to logs.person
UpdateProfile_renameLogs(D, id, name, relationship) ==
    IF name # undefined /\ (\E p \in D.profiles : p.id = id)
                        /\ ~UniqueName(D, name[1], id)
    THEN [D |-> D, result |-> "SQLITE_CONSTRAINT_UNIQUE"]
    ELSE [D |-> [D EXCEPT !.profiles =
                    {IF p.id # id THEN p
                     ELSE [p EXCEPT
                             !.name = IF name # undefined THEN name[1] ELSE @,
                             !.relationship = IF relationship # undefined
                                              THEN relationship[1] ELSE @]
                     : p \in D.profiles},
                  !.logs =
                    {IF l.profile_id = <<id>> /\ name # undefined
                     THEN [l EXCEPT !.person = name[1]] ELSE l : l \in D.logs}],
          result |-> "ok"]

\* UPDATE profiles SET name = ?, relationship = ? WHERE id = ?  (the fields
\* that are not undefined)
UpdateProfile(D, id, name, relationship) ==
    IF name # undefined /\ (\E p \in D.profiles : p.id = id)
                        /\ ~UniqueName(D, name[1], id)
    THEN [D |-> D, result |-> "SQLITE_CONSTRAINT_UNIQUE"]
    ELSE [D |-> [D EXCEPT !.profiles =
                    {IF p.id # id THEN p
                     ELSE [p EXCEPT
                             !.name = IF name # undefined THEN name[1] ELSE @,
                             !.relationship = IF relationship # undefined
                                              THEN relationship[1] ELSE @]
                     : p \in D.profiles}],
          result |-> "ok"]

\* DELETE FROM profiles WHERE id = ?
DeleteProfile(D, fk, id) ==
    IF \E p \in D.profiles : p.id = id
    THEN [D EXCEPT !.profiles = {p \in D.profiles : p.id # id},
                   !.logs = OnDeleteSetNull(D.logs, fk, id)]
    ELSE D

\* INSERT INTO logs (timestamp, person, profile_id, type, severity, category, notes)
InsertLog(D, fk, timestamp, person, profile_id, type, severity, category, notes) ==
    IF ~CheckType(type) \/ ~CheckSeverity(severity)
    THEN [D |-> D, result |-> "SQLITE_CONSTRAINT_CHECK", lastInsertRowId |-> 0]
    ELSE IF ~ReferencesProfile(D, fk, profile_id)
    THEN [D |-> D, result |-> "SQLITE_CONSTRAINT_FOREIGNKEY", lastInsertRowId |-> 0]
    ELSE LET id == D.seq.logs + 1
         IN  [D |-> [D EXCEPT !.logs = @ \cup
                            {[id |-> id, timestamp |-> timestamp, person |-> person,
                              profile_id |-> profile_id, type |-> type,
                              severity |-> severity, category |-> category,
                              notes |-> notes]},
                        !.seq.logs = id],
              result |-> "ok", lastInsertRowId |-> id]

\* DELETE FROM logs WHERE id = ?
DeleteLog(D, id) == [D EXCEPT !.logs = {l \in D.logs : l.id # id}]

\* mutant: the edit form writes the severity as well
UpdateLogNotes_severity(D, id, notes) ==
    [D EXCEPT !.logs = {IF l.id = id THEN [l EXCEPT !.notes = notes, !.severity = 5]
                        ELSE l : l \in D.logs}]

\* UPDATE logs SET notes = ? WHERE id = ?
UpdateLogNotes(D, id, notes) ==
    [D EXCEPT !.logs = {IF l.id = id THEN [l EXCEPT !.notes = notes] ELSE l : l \in D.logs}]

\* ---- the startup migration (db.ts 48-87) ----

\* SELECT DISTINCT person FROM logs WHERE profile_id IS NULL
UnlinkedPeople(D) == {l.person : l \in {x \in D.logs : x.profile_id = NULL}}

\* SQL fixes no order for the rows of that SELECT: every order of them
Orders(S) == {o \in [1..Cardinality(S) -> S] : \A i, j \in DOMAIN o : i # j => o[i] # o[j]}

\* mutant: the UPDATE of lines 82-85 links one row only (as with LIMIT 1)
RECURSIVE migrateLoop_oneRow(_, _, _)
migrateLoop_oneRow(D, uniquePeople, timestamp) ==
    IF uniquePeople = << >> THEN D
    ELSE LET person    == Head(uniquePeople)
             existing  == {p \in D.profiles : p.name = person}
             created   == InsertProfile(D, person, "Unknown", timestamp)
             D1        == IF existing # {} THEN D ELSE created.D
             profileId == IF existing # {}
                          THEN (CHOOSE p \in existing : TRUE).id
                          ELSE created.lastInsertRowId
             rows      == {l \in D1.logs : l.person = person /\ l.profile_id = NULL}
             first     == CHOOSE l \in rows : \A m \in rows : l.id <= m.id
             D2        == [D1 EXCEPT !.logs =
                             {IF l = first
                              THEN [l EXCEPT !.profile_id = <<profileId>>]
                              ELSE l : l \in D1.logs}]
         IN  migrateLoop_oneRow(D2, Tail(uniquePeople), timestamp)

\* mutant: the UPDATE of lines 82-85 without "AND profile_id IS NULL"
RECURSIVE migrateLoop_relinkAll(_, _, _)
migrateLoop_relinkAll(D, uniquePeople, timestamp) ==
    IF uniquePeople = << >> THEN D
    ELSE LET person    == Head(uniquePeople)
             existing  == {p \in D.profiles : p.name = person}
             created   == InsertProfile(D, person, "Unknown", timestamp)
             D1        == IF existing # {} THEN D ELSE created.D
             profileId == IF existing # {}
                          THEN (CHOOSE p \in existing : TRUE).id
                          ELSE created.lastInsertRowId
             D2        == [D1 EXCEPT !.logs =
                             {IF l.person = person
                              THEN [l EXCEPT !.profile_id = <<profileId>>]
                              ELSE l : l \in D1.logs}]
         IN  migrateLoop_relinkAll(D2, Tail(uniquePeople), timestamp)

\* the loop of lines 62-86 over uniquePeople
RECURSIVE migrateLoop(_, _, _)
migrateLoop(D, uniquePeople, timestamp) ==
    IF uniquePeople = << >> THEN D
    ELSE LET person    == Head(uniquePeople)
             existing  == {p \in D.profiles : p.name = person}
             created   == InsertProfile(D, person, "Unknown", timestamp)
             D1        == IF existing # {} THEN D ELSE created.D
             profileId == IF existing # {}
                          THEN (CHOOSE p \in existing : TRUE).id
                          ELSE created.lastInsertRowId
             \* UPDATE logs SET profile_id = ? WHERE person = ? AND profile_id IS NULL
             D2        == [D1 EXCEPT !.logs =
                             {IF l.person = person /\ l.profile_id = NULL
                              THEN [l EXCEPT !.profile_id = <<profileId>>]
                              ELSE l : l \in D1.logs}]
         IN  migrateLoop(D2, Tail(uniquePeople), timestamp)

\* mutant: the loop runs over existingLogs (the LIMIT 1 probe of line 51)
\* instead of uniquePeople
migrateExistingData_probeOnly(D, uniquePeople, timestamp) ==
    IF {l \in D.logs : l.profile_id = NULL} = {} THEN D
    ELSE migrateLoop(D, SubSeq(uniquePeople, 1, 1), timestamp)

\* uniquePeople is the order in which SQLite returned the unlinked people
migrateExistingData(D, uniquePeople, timestamp) ==
    IF {l \in D.logs : l.profile_id = NULL} = {} THEN D
    ELSE migrateLoop(D, uniquePeople, timestamp)

\* the tables and the profile_id column exist in the model from the start
\* (an old file's logs have profile_id NULL once the column is added), so
\* what initializeDatabase changes is what the migration changes
initializeDatabase(D, uniquePeople, timestamp) ==
    migrateExistingData(D, uniquePeople, timestamp)

(***************************************************************************)
(* The program: the first getDatabase() of a process opens the file and    *)
(* initializes it; every later call finds db set (line 6) and returns it,  *)
(* so the operations below run their statement on the open handle.  The    *)
(* file outlives the process.                                              *)
(***************************************************************************)
OPEN == <<"open">>

Store(D) ==
    /\ profiles' = D.profiles
    /\ logs' = D.logs
    /\ sqlite_sequence' = D.seq

WithinBounds(D) ==
    /\ D.seq.profiles <= MaxProfileRows
    /\ D.seq.logs <= MaxLogRows

Init ==
    /\ profiles = {}
    /\ logs = {}
    /\ sqlite_sequence = [profiles |-> 0, logs |-> 0]
    /\ foreign_keys \in BOOLEAN
    /\ db = NULL
    /\ now = 0
    /\ result = "none"
    /\ logsArg = << >> /\ vibeScore = 0 /\ scoreArg = 0 /\ healthStatus = "Thriving"
    /\ dashboard = DashboardMounted
    /\ orderOfTies = "ASC" /\ returned = NoReturn
    /\ customerInfo = NoEntitlements /\ lastApiCall = NoCall
    /\ AppAtRest

\* getDatabase() with db unset: open, initializeDatabase
getDatabase ==
    /\ db = NULL
    /\ \E uniquePeople \in Orders(UnlinkedPeople(Database)) :
          LET D == initializeDatabase(Database, uniquePeople, now)
          IN  WithinBounds(D) /\ Store(D)
    /\ db' = OPEN
    /\ result' = "ok"
    /\ UNCHANGED <<foreign_keys, now>>

\* the process ends; the next launch starts with db unset
AppRestart ==
    /\ db # NULL
    /\ db' = NULL
    /\ result' = "none"
    /\ UNCHANGED <<profiles, logs, sqlite_sequence, foreign_keys, now>>

createProfile(name, relationship) ==
    /\ db # NULL
    /\ LET r == InsertProfile(Database, name, relationship, now)
       IN  WithinBounds(r.D) /\ Store(r.D) /\ result' = r.result
    /\ UNCHANGED <<foreign_keys, db, now>>

\* ProfilesScreen.handleAddProfile: its own INSERT of the trimmed name
handleAddProfile(newName, newRelationship) ==
    /\ db # NULL
    /\ IF trim(newName) = ""
       THEN UNCHANGED <<profiles, logs, sqlite_sequence, result>>
       ELSE LET r == InsertProfile(Database, trim(newName), newRelationship, now)
            IN  WithinBounds(r.D) /\ Store(r.D) /\ result' = r.result
    /\ UNCHANGED <<foreign_keys, db, now>>

\* updateProfile run on database D: no statement when no field is supplied
\* (fields.length === 0), else the UPDATE
updateProfileOn(D, id, name, relationship) ==
    IF name = undefined /\ relationship = undefined
    THEN [D |-> D, result |-> "ok"]
    ELSE UpdateProfile(D, id, name, relationship)

updateProfile(id, name, relationship) ==
    /\ db # NULL
    /\ LET r == updateProfileOn(Database, id, name, relationship)
       IN  Store(r.D) /\ result' = r.result
    /\ UNCHANGED <<foreign_keys, db, now>>

deleteProfile(id) ==
    /\ db # NULL
    /\ Store(DeleteProfile(Database, foreign_keys, id))
    /\ result' = "ok"
    /\ UNCHANGED <<foreign_keys, db, now>>

insertLog(person, profile_id, type, severity, category, notes) ==
    /\ db # NULL
    /\ LET r == InsertLog(Database, foreign_keys, now, person,
                          NumberOrNull(profile_id), type, severity, category,
                          StringOrNull(notes))
       IN  WithinBounds(r.D) /\ Store(r.D) /\ result' = r.result
    /\ UNCHANGED <<foreign_keys, db, now>>

deleteLog(id) ==
    /\ db # NULL
    /\ Store(DeleteLog(Database, id))
    /\ result' = "ok"
    /\ UNCHANGED <<foreign_keys, db, now>>

OptionalOf(S) == {undefined} \cup {<<x>> : x \in S}

Next ==
    \/ (getDatabase /\ UNCHANGED <<scoringVars, readVars, serviceVars, appVars>>)
    \/ (AppRestart /\ UNCHANGED <<scoringVars, readVars, serviceVars, appVars>>)
    \/ \E name \in ProfileNames, relationship \in RelationshipType :
          createProfile(name, relationship) /\ UNCHANGED <<scoringVars, readVars, serviceVars, appVars>>
    \/ \E newName \in NameInputs, newRelationship \in RelationshipType :
          handleAddProfile(newName, newRelationship) /\ UNCHANGED <<scoringVars, readVars, serviceVars, appVars>>
    \/ \E id \in 1..MaxProfileRows, name \in OptionalOf(ProfileNames),
          relationship \in OptionalOf(RelationshipType) :
          updateProfile(id, name, relationship) /\ UNCHANGED <<scoringVars, readVars, serviceVars, appVars>>
    \/ \E id \in 1..MaxProfileRows : deleteProfile(id) /\ UNCHANGED <<scoringVars, readVars, serviceVars, appVars>>
    \/ \E person \in ProfileNames, profile_id \in ProfileIdInputs,
          e \in EntryInputs, category \in LogCategory, notes \in NotesInputs :
          insertLog(person, profile_id, e[1], e[2], category, notes)
          /\ UNCHANGED <<scoringVars, readVars, serviceVars, appVars>>
    \/ \E id \in 1..MaxLogRows : deleteLog(id) /\ UNCHANGED <<scoringVars, readVars, serviceVars, appVars>>

Spec == Init /\ [][Next]_vars

(***************************************************************************)
(* Reading the database.  Every query is a SELECT ... ORDER BY ... DESC;   *)
(* SQL leaves the order of rows with equal keys open, the SQLite build     *)
(* fixes it: orderOfTies is "ASC" (by rowid upwards) or "DESC".            *)
(***************************************************************************)
OrderOfTies == {"ASC", "DESC"}

\* row a comes before row b
Before(a, b, key, ties) ==
    \/ key[a] > key[b]
    \/ key[a] = key[b] /\ (IF ties = "ASC" THEN a.id < b.id ELSE a.id > b.id)

\* ORDER BY key DESC over the rows S (key: a function on S)
RECURSIVE OrderByDesc(_, _, _)
OrderByDesc(S, key, ties) ==
    IF S = {} THEN << >>
    ELSE LET first == CHOOSE a \in S : \A b \in S \ {a} : Before(a, b, key, ties)
         IN  <<first>> \o OrderByDesc(S \ {first}, key, ties)

\* mutant: ORDER BY timestamp ASC
OrderByTimestampDesc_asc(S, ties) == OrderByDesc(S, [l \in S |-> -l.timestamp], ties)

\* ORDER BY timestamp DESC
OrderByTimestampDesc(S, ties) == OrderByDesc(S, [l \in S |-> l.timestamp], ties)

\* SELECT * FROM profiles WHERE id = ?   (results[0] or null)
getProfileById(D, id) ==
    IF \E p \in D.profiles : p.id = id
    THEN <<CHOOSE p \in D.profiles : p.id = id>>
    ELSE NULL

\* the names of ProfileNames in ascending order of SQLite's BINARY collation
NameOrder == <<"Alex", "Sam">>
NameRank(name) == CHOOSE i \in 1..Len(NameOrder) : NameOrder[i] = name

\* SELECT * FROM profiles ORDER BY name ASC  (names are unique: no ties)
getAllProfiles(D, ties) ==
    OrderByDesc(D.profiles, [p \in D.profiles |-> -NameRank(p.name)], ties)

\* SELECT * FROM logs WHERE profile_id = ? ORDER BY timestamp DESC
getLogsByProfileId(D, ties, profileId) ==
    OrderByTimestampDesc({l \in D.logs : l.profile_id = <<profileId>>}, ties)

\* LIMIT ?  (a negative limit is no limit)
Limit(rows, limit) ==
    IF limit < 0 THEN rows ELSE SubSeq(rows, 1, Min(limit, Len(rows)))

\* SELECT * FROM logs ORDER BY timestamp DESC
getAllLogs(D, ties) == OrderByTimestampDesc(D.logs, ties)

\* SELECT * FROM logs ORDER BY timestamp DESC LIMIT ?
getRecentLogs(D, ties, limit) == Limit(OrderByTimestampDesc(D.logs, ties), limit)

\* logs.filter(l => l.type === type).length
CountOfType(rows, type) == Cardinality({i \in 1..Len(rows) : rows[i].type = type})

\* mutant: lastFlagDate taken from the last row
getProfileStats_lastRow(D, ties, profileId) ==
    LET profile == getProfileById(D, profileId)
    IN  IF profile = NULL THEN NULL
        ELSE LET rows == getLogsByProfileId(D, ties, profileId)
                 score == calculateVibeScore(rows)
             IN  <<[profile      |-> profile[1],
                    vibeScore    |-> score,
                    healthStatus |-> getHealthStatus(score),
                    totalLogs    |-> Len(rows),
                    redCount     |-> CountOfType(rows, "RED"),
                    yellowCount  |-> CountOfType(rows, "YELLOW"),
                    greenCount   |-> CountOfType(rows, "GREEN"),
                    lastFlagDate |-> IF Len(rows) > 0
                                     THEN <<rows[Len(rows)].timestamp>> ELSE NULL]>>

\* getProfileStats: null, or <<the ProfileStats object>>
getProfileStats(D, ties, profileId) ==
    LET profile == getProfileById(D, profileId)
    IN  IF profile = NULL THEN NULL
        ELSE LET rows == getLogsByProfileId(D, ties, profileId)
                 score == calculateVibeScore(rows)
             IN  <<[profile      |-> profile[1],
                    vibeScore    |-> score,
                    healthStatus |-> getHealthStatus(score),
                    totalLogs    |-> Len(rows),
                    redCount     |-> CountOfType(rows, "RED"),
                    yellowCount  |-> CountOfType(rows, "YELLOW"),
                    greenCount   |-> CountOfType(rows, "GREEN"),
                    lastFlagDate |-> IF Len(rows) > 0
                                     THEN <<rows[1].timestamp>> ELSE NULL]>>

OnProfileId(p, l) == <<p.id>> = l.profile_id
OnPersonName(p, l) == p.name = l.person

\* the join condition of the query: on the profile id, or on the name
JoinedOn(on, p, l) ==
    IF on = "p.id = l.profile_id" THEN OnProfileId(p, l) ELSE OnPersonName(p, l)

\* SELECT p.id, p.name, COUNT(l.id) as flagCount FROM profiles p
\* LEFT JOIN logs l ON <on> GROUP BY p.id
CountJoined(D, on) ==
    {[id |-> p.id, name |-> p.name,
      flagCount |-> Cardinality({l \in D.logs : JoinedOn(on, p, l)})] : p \in D.profiles}

\* mutant: the query without HAVING flagCount > 0
TopProfilesQuery_noHaving(D, ties, limit, on) ==
    LET grouped == CountJoined(D, on)
    IN  Limit(OrderByDesc(grouped, [g \in grouped |-> g.flagCount], ties), limit)

\* ... HAVING flagCount > 0 ORDER BY flagCount DESC LIMIT ?
TopProfilesQuery(D, ties, limit, on) ==
    LET grouped == {g \in CountJoined(D, on) : g.flagCount > 0}
    IN  Limit(OrderByDesc(grouped, [g \in grouped |-> g.flagCount], ties), limit)

getTopProfilesByLogCount(D, ties, limit) ==
    LET results == TopProfilesQuery(D, ties, limit, "p.id = l.profile_id")
    IN  IF Len(results) = 0
        THEN TopProfilesQuery(D, ties, limit, "p.name = l.person")
        ELSE results

\* ProfileDetailScreen.fetchProfileData: what it hands to setProfile and setLogs
fetchProfileData(D, ties, profileId) ==
    LET profileResults == getProfileById(D, profileId)
    IN  IF profileResults = NULL
        THEN [profile |-> NULL, logs |-> << >>]
        ELSE LET loadedProfile == profileResults[1]
                 byId   == OrderByTimestampDesc(
                              {l \in D.logs : l.profile_id = <<profileId>>}, ties)
                 byName == OrderByTimestampDesc(
                              {l \in D.logs : l.person = loadedProfile.name}, ties)
             IN  [profile |-> profileResults,
                  logs |-> IF Len(byId) = 0 THEN byName ELSE byId]

(***************************************************************************)
(* The program with its clock and its queries: one session of the app, in  *)
(* which profiles are created and logs are saved from the Logger while     *)
(* time passes, and the screens read the database.                         *)
(***************************************************************************)
\* what the Logger hands to insertLog as (type, severity)
LoggedEntries == { <<"RED", 10>>, <<"YELLOW", 3>> }

InitQueries ==
    /\ profiles = {}
    /\ logs = {}
    /\ sqlite_sequence = [profiles |-> 0, logs |-> 0]
    /\ foreign_keys = FALSE      \* no statement of this session depends on it:
                                 \* saved logs reference a stored profile and
                                 \* no profile is deleted
    /\ db = NULL
    /\ now = 0
    /\ result = "none"
    /\ orderOfTies \in OrderOfTies
    /\ returned = NoReturn
    /\ customerInfo = NoEntitlements /\ lastApiCall = NoCall
    /\ AppAtRest
    /\ logsArg = << >> /\ vibeScore = 0 /\ scoreArg = 0 /\ healthStatus = "Thriving"
    /\ dashboard = DashboardMounted

\* a write: whatever a query returned before is out of date
Written == returned' = NoReturn /\ UNCHANGED <<scoringVars, orderOfTies, serviceVars, appVars>>

\* a query: the database and the clock stay as they are
Returns(op, arg, value) ==
    /\ db # NULL
    /\ returned' = [op |-> op, arg |-> arg, value |-> value]
    /\ UNCHANGED <<scoringVars, dbVars, orderOfTies, serviceVars, appVars>>

\* time passes
Tick ==
    /\ now < MaxClock
    /\ now' = now + 1
    /\ UNCHANGED <<profiles, logs, sqlite_sequence, foreign_keys, db, result>>
    /\ UNCHANGED <<scoringVars, readVars, serviceVars, appVars>>

\* LoggerModal.handleSave: the log of the selected profile; the notes field
\* is left empty (notes.trim() || undefined)
handleSave(flagType, severity, category) ==
    \E selectedProfile \in profiles :
       insertLog(selectedProfile.name, <<selectedProfile.id>>, flagType, severity,
                 category, undefined)

CallGetAllLogs ==
    Returns("getAllLogs", NULL, getAllLogs(Database, orderOfTies))

CallGetRecentLogs(limit) ==
    Returns("getRecentLogs", limit, getRecentLogs(Database, orderOfTies, limit))

CallGetProfileStats(profileId) ==
    Returns("getProfileStats", profileId,
            getProfileStats(Database, orderOfTies, profileId))

CallGetTopProfilesByLogCount(limit) ==
    Returns("getTopProfilesByLogCount", limit,
            getTopProfilesByLogCount(Database, orderOfTies, limit))

\* the limits handed to getTopProfilesByLogCount: one kept, the default
TopLimits == {1, 3}

\* the limits handed to getRecentLogs: none kept, one kept, the default
RecentLimits == {0, 1, 10}

NextQueries ==
    \/ (getDatabase /\ Written)
    \/ Tick
    \/ \E name \in ProfileNames, relationship \in RelationshipType :
          createProfile(name, relationship) /\ Written
    \/ \E e \in LoggedEntries, category \in LogCategory :
          handleSave(e[1], e[2], category) /\ Written
    \/ CallGetAllLogs
    \/ \E limit \in RecentLimits : CallGetRecentLogs(limit)
    \/ \E profileId \in 1..MaxProfileRows : CallGetProfileStats(profileId)
    \/ \E limit \in TopLimits : CallGetTopProfilesByLogCount(limit)

SpecQueries == InitQueries /\ [][NextQueries]_vars

(***************************************************************************)
(* RevenueCatService (src/src/services/RevenueCatService.ts): the tier is  *)
(* read from RevenueCat's customer info at every call.                     *)
(***************************************************************************)
ENTITLEMENTS == [PRO |-> "pro", PREMIUM |-> "premium"]

\* a JavaScript number that is a count or Infinity
Finite(n) == [finite |-> TRUE, n |-> n]
Infinity == [finite |-> FALSE, n |-> 0]

FREE_LIMITS ==
    [maxProfiles |-> Finite(2), maxLogs |-> Finite(25), canExportPDF |-> FALSE, hasAIFeatures |-> FALSE]
PRO_LIMITS ==
    [maxProfiles |-> Infinity, maxLogs |-> Infinity,
     canExportPDF |-> TRUE, hasAIFeatures |-> FALSE]
PREMIUM_LIMITS ==
    [maxProfiles |-> Infinity, maxLogs |-> Infinity,
     canExportPDF |-> TRUE, hasAIFeatures |-> TRUE]

\* what Purchases.getCustomerInfo() may answer: it throws, or it gives the
\* active entitlements
CustomerInfos ==
    {[throws |-> TRUE, active |-> {}]}
    \cup {[throws |-> FALSE, active |-> a] : a \in SUBSET {"pro", "premium"}}

getCurrentTier(info) ==
    IF info.throws THEN "free"
    ELSE IF ENTITLEMENTS.PREMIUM \in info.active THEN "premium"
    ELSE IF ENTITLEMENTS.PRO \in info.active THEN "pro"
    ELSE "free"

\* mutant: the pro tier given the AI features
getLimits_proHasAI(info) ==
    CASE getCurrentTier(info) = "premium" -> PREMIUM_LIMITS
      [] getCurrentTier(info) = "pro"     -> PREMIUM_LIMITS
      [] OTHER                            -> FREE_LIMITS

getLimits(info) ==
    CASE getCurrentTier(info) = "premium" -> PREMIUM_LIMITS
      [] getCurrentTier(info) = "pro"     -> PRO_LIMITS
      [] OTHER                            -> FREE_LIMITS

\* currentCount >= limit on numbers
AtLeast(currentCount, limit) == limit.finite /\ currentCount >= limit.n

Denied(reason) == [allowed |-> FALSE, reason |-> <<reason>>]
Allowed == [allowed |-> TRUE, reason |-> undefined]

canPerformAction(info, action, currentCount) ==
    LET limits == getLimits(info)
    IN  CASE action = "addProfile" ->
               IF currentCount = undefined
               THEN Denied("Current profile count required")
               ELSE IF AtLeast(currentCount[1], limits.maxProfiles)
               THEN Denied("Free tier limited to maxProfiles profiles. Upgrade to Pro for unlimited.")
               ELSE Allowed
          [] action = "addLog" ->
               IF currentCount = undefined
               THEN Denied("Current log count required")
               ELSE IF AtLeast(currentCount[1], limits.maxLogs)
               THEN Denied("Free tier limited to maxLogs logs. Upgrade to Pro for unlimited.")
               ELSE Allowed
          [] action = "exportPDF" ->
               IF ~limits.canExportPDF
               THEN Denied("PDF export requires Pro subscription")
               ELSE Allowed
          [] action = "useAI" ->
               IF ~limits.hasAIFeatures
               THEN Denied("AI features require Premium subscription")
               ELSE Allowed
          [] OTHER -> Denied("Unknown action")

(***************************************************************************)
(* The services as a state machine: the customer's entitlements change     *)
(* (a purchase, an expiry, the network going away) and the screens ask     *)
(* what is allowed.                                                        *)
(***************************************************************************)
Actions == {"addProfile", "addLog", "exportPDF", "useAI"}
CountInputs == {undefined} \cup {<<n>> : n \in 0..MaxCurrentCount}

InitServices ==
    /\ customerInfo \in CustomerInfos
    /\ lastApiCall = NoCall
    /\ returned = NoReturn
    /\ orderOfTies = "ASC"
    /\ profiles = {} /\ logs = {}
    /\ sqlite_sequence = [profiles |-> 0, logs |-> 0]
    /\ foreign_keys = FALSE /\ db = NULL /\ now = 0 /\ result = "none"
    /\ logsArg = << >> /\ vibeScore = 0 /\ scoreArg = 0 /\ healthStatus = "Thriving"
    /\ dashboard = DashboardMounted
    /\ AppAtRest

CustomerInfoChanges ==
    /\ customerInfo' \in CustomerInfos \ {customerInfo}
    /\ returned' = NoReturn
    /\ UNCHANGED <<scoringVars, dbVars, orderOfTies, lastApiCall, appVars>>

CallCanPerformAction(action, currentCount) ==
    /\ returned' = [op |-> "canPerformAction",
                    arg |-> [action |-> action, currentCount |-> currentCount],
                    value |-> canPerformAction(customerInfo, action, currentCount)]
    /\ UNCHANGED <<scoringVars, dbVars, orderOfTies, serviceVars, appVars>>

(***************************************************************************)
(* AIInsightsService (src/src/services/AIInsightsService.ts).  Of the log  *)
(* sequence only the length decides what the functions do; the remote API  *)
(* answers with a JSON text, with some other text, or fails.               *)
(***************************************************************************)
MIN_LOGS_FOR_AI == 5

ApiOutcomes == {"json", "text", "fails"}

canUseAIAnalysis(logCount) == logCount >= MIN_LOGS_FOR_AI

\* a call of an AI function: it throws before the request when rejects holds,
\* else the request is sent and its outcome decides the value
AICall(op, logCount, rejects, rejection, value) ==
    /\ returned' = [op |-> op, arg |-> logCount,
                    value |-> IF rejects THEN rejection ELSE value]
    /\ lastApiCall' = IF rejects THEN lastApiCall
                      ELSE [caller |-> op, logCount |-> logCount]
    /\ UNCHANGED <<scoringVars, dbVars, orderOfTies, customerInfo, appVars>>

analyzePersonBehavior(logCount, outcome) ==
    AICall("analyzePersonBehavior", logCount, logCount < MIN_LOGS_FOR_AI,
           "Error: Need at least MIN_LOGS_FOR_AI logs for AI analysis",
           IF outcome = "json" THEN "analysis"
           ELSE "Error: Failed to generate AI insights. Please try again.")

chatAboutPerson(logCount, outcome) ==
    AICall("chatAboutPerson", logCount, logCount < MIN_LOGS_FOR_AI,
           "Error: Need at least MIN_LOGS_FOR_AI logs to chat with AI about this person.",
           IF outcome = "fails" THEN "Error: Failed to get AI response. Please try again."
           ELSE "response")

generateMonthlyReport(logCount, outcome) ==
    AICall("generateMonthlyReport", logCount, logCount = 0,
           "Error: No logs available for this month.",
           IF outcome = "json" THEN "report"
           ELSE "Error: Failed to generate monthly report. Please try again.")

NextServices ==
    \/ CustomerInfoChanges
    \/ \E action \in Actions, currentCount \in CountInputs :
          CallCanPerformAction(action, currentCount)
    \/ \E logCount \in 0..MaxAILogs, outcome \in ApiOutcomes :
          analyzePersonBehavior(logCount, outcome)
    \/ \E logCount \in 0..MaxAILogs, outcome \in ApiOutcomes :
          chatAboutPerson(logCount, outcome)
    \/ \E logCount \in 0..MaxAILogs, outcome \in ApiOutcomes :
          generateMonthlyReport(logCount, outcome)

SpecServices == InitServices /\ [][NextServices]_vars

(***************************************************************************)
(* getDatabase() step by step (db.ts 5-11).  The function suspends at its  *)
(* two awaits, and other callers run in between: a caller that finds db    *)
(* unset starts openDatabaseAsync; when that resolves it assigns db and    *)
(* starts initializeDatabase; when that resolves it returns db.  The file  *)
(* is one an earlier version of the app may have left: logs without a      *)
(* profile reference.  initializeDatabase is taken as one step here.       *)
(***************************************************************************)
LegacyLog(id, person) ==
    [id |-> id, timestamp |-> 0, person |-> person, profile_id |-> NULL,
     type |-> "RED", severity |-> 10, category |-> CHOOSE c \in LogCategory : TRUE,
     notes |-> NULL]

LegacyFiles ==
    {[profiles |-> {},
      logs |-> {LegacyLog(i, people[i]) : i \in 1..k},
      seq |-> [profiles |-> 0, logs |-> k]] :
        k \in 0..MaxLogRows, people \in [1..MaxLogRows -> ProfileNames]}

InitOpen ==
    /\ \E file \in LegacyFiles :
          profiles = file.profiles /\ logs = file.logs /\ sqlite_sequence = file.seq
    /\ foreign_keys \in BOOLEAN
    /\ db = NULL /\ now = 0 /\ result = "none"
    /\ NoCallers /\ NothingDeleted /\ NoScreen /\ NoStore /\ NoLock
    /\ logsArg = << >> /\ vibeScore = 0 /\ scoreArg = 0 /\ healthStatus = "Thriving"
    /\ dashboard = DashboardMounted
    /\ orderOfTies = "ASC" /\ returned = NoReturn
    /\ customerInfo = NoEntitlements /\ lastApiCall = NoCall

\* line 6: if (db) return db; else line 8 starts openDatabaseAsync
EnterGetDatabase(c) ==
    /\ pc[c] = "idle"
    /\ IF db # NULL
       THEN /\ pc' = [pc EXCEPT ![c] = "returned"]
            /\ received' = [received EXCEPT ![c] =
                              IF initCount > 0 THEN "initialized handle"
                              ELSE "uninitialized handle"]
       ELSE /\ pc' = [pc EXCEPT ![c] = "openDatabaseAsync"]
            /\ UNCHANGED received
    /\ UNCHANGED <<scoringVars, dbVars, readVars, serviceVars, openCount, initCount,
                   deletedVars, screenVars, storeVars, authVars>>

\* line 8: openDatabaseAsync resolves, db is assigned; line 9 starts
\* initializeDatabase
OpenResolves(c) ==
    /\ pc[c] = "openDatabaseAsync"
    /\ db' = OPEN
    /\ openCount' = openCount + 1
    /\ pc' = [pc EXCEPT ![c] = "initializeDatabase"]
    /\ UNCHANGED <<scoringVars, profiles, logs, sqlite_sequence, foreign_keys, now,
                   result, readVars, serviceVars, initCount, received, deletedVars,
                   screenVars, storeVars, authVars>>

\* line 9: initializeDatabase resolves; line 10: return db
InitializeResolves(c) ==
    /\ pc[c] = "initializeDatabase"
    /\ \E uniquePeople \in Orders(UnlinkedPeople(Database)) :
          LET D == initializeDatabase(Database, uniquePeople, now)
          IN  WithinBounds(D) /\ Store(D)
    /\ initCount' = initCount + 1
    /\ result' = "ok"
    /\ pc' = [pc EXCEPT ![c] = "returned"]
    /\ received' = [received EXCEPT ![c] = "initialized handle"]
    /\ UNCHANGED <<scoringVars, foreign_keys, db, now, readVars, serviceVars, openCount,
                   deletedVars, screenVars, storeVars, authVars>>

\* the caller goes on; the same code may call getDatabase() again
CallerContinues(c) ==
    /\ pc[c] = "returned"
    /\ pc' = [pc EXCEPT ![c] = "idle"]
    /\ received' = [received EXCEPT ![c] = "nothing"]
    /\ UNCHANGED <<scoringVars, dbVars, readVars, serviceVars, openCount, initCount,
                   deletedVars, screenVars, storeVars, authVars>>

NextOpen ==
    \/ \E c \in Callers : EnterGetDatabase(c)
    \/ \E c \in Callers : OpenResolves(c)
    \/ \E c \in Callers : InitializeResolves(c)
    \/ \E c \in Callers : CallerContinues(c)

SpecOpen == InitOpen /\ [][NextOpen]_vars

(***************************************************************************)
(* The life of a profile over several launches of the app: the user adds   *)
(* profiles, saves logs from the Logger, renames and deletes profiles and  *)
(* edits and deletes logs on the profile screen, and the app is closed and *)
(* started again.  deletedNames and detachedLogs record what the user      *)
(* deleted.                                                                *)
(***************************************************************************)
InitLifecycle ==
    /\ profiles = {} /\ logs = {}
    /\ sqlite_sequence = [profiles |-> 0, logs |-> 0]
    /\ foreign_keys \in BOOLEAN
    /\ db = NULL /\ now = 0 /\ result = "none"
    /\ NoCallers /\ NothingDeleted /\ NoScreen /\ NoStore /\ NoLock
    /\ logsArg = << >> /\ vibeScore = 0 /\ scoreArg = 0 /\ healthStatus = "Thriving"
    /\ dashboard = DashboardMounted
    /\ orderOfTies = "ASC" /\ returned = NoReturn
    /\ customerInfo = NoEntitlements /\ lastApiCall = NoCall

AtRestInLifecycle ==
    UNCHANGED <<scoringVars, readVars, serviceVars, openVars, screenVars, storeVars,
                authVars>>

\* the user adds a profile: the name is theirs again
UserCreatesProfile(name, relationship) ==
    /\ createProfile(name, relationship)
    /\ deletedNames' = IF result' = "ok" THEN deletedNames \ {name} ELSE deletedNames
    /\ detachedLogs' = IF result' = "ok"
                       THEN {l \in detachedLogs : l.person # name}
                       ELSE detachedLogs

\* ProfileDetailScreen.handleDeleteProfile on the profile shown
handleDeleteProfile(profileId) ==
    /\ \E p \in profiles : p.id = profileId
    /\ deleteProfile(profileId)
    /\ deletedNames' = deletedNames \cup {p.name : p \in {q \in profiles : q.id = profileId}}
    /\ detachedLogs' = detachedLogs \cup
                          {[id |-> l.id, person |-> l.person, profile_id |-> l.profile_id] :
                             l \in {x \in logs' : \E m \in logs :
                                       m.id = x.id /\ m.profile_id = <<profileId>>}}

\* ProfileDetailScreen.handleSaveEdit on the profile shown: the user gives
\* the profile a name
handleSaveEdit(profileId, editName, editRelationship) ==
    /\ \E p \in profiles : p.id = profileId
    /\ IF trim(editName) = ""
       THEN UNCHANGED <<dbVars, deletedVars>>
       ELSE /\ updateProfile(profileId, <<trim(editName)>>, <<editRelationship>>)
            /\ deletedNames' = IF result' = "ok" THEN deletedNames \ {trim(editName)}
                               ELSE deletedNames
            /\ detachedLogs' = IF result' = "ok"
                               THEN {l \in detachedLogs : l.person # trim(editName)}
                               ELSE detachedLogs

\* what the user may type into the notes field of the edit modal
EditedNotes == {"", "was late"}

\* ProfileDetailScreen.handleSaveLogEdit on the log being edited
handleSaveLogEdit(id, editLogNotes) ==
    /\ db # NULL
    /\ \E editingLog \in logs : editingLog.id = id
    /\ Store(UpdateLogNotes(Database, id, StringOrNull(<<editLogNotes>>)))
    /\ result' = "ok"
    /\ UNCHANGED <<foreign_keys, db, now>>

\* ProfileDetailScreen.handleDeleteLog on a log of the list
handleDeleteLog(id) ==
    /\ \E logToDelete \in logs : logToDelete.id = id
    /\ deleteLog(id)
    /\ detachedLogs' = {l \in detachedLogs : l.id # id}
    /\ UNCHANGED deletedNames

NextLifecycle ==
    \/ \E profileId \in 1..MaxProfileRows, editName \in NameInputs,
          editRelationship \in RelationshipType :
          handleSaveEdit(profileId, editName, editRelationship) /\ AtRestInLifecycle
    \/ \E id \in 1..MaxLogRows, editLogNotes \in EditedNotes :
          handleSaveLogEdit(id, editLogNotes) /\ UNCHANGED deletedVars /\ AtRestInLifecycle
    \/ \E id \in 1..MaxLogRows :
          handleDeleteLog(id) /\ AtRestInLifecycle
    \/ (getDatabase /\ UNCHANGED deletedVars /\ AtRestInLifecycle)
    \/ (AppRestart /\ UNCHANGED deletedVars /\ AtRestInLifecycle)
    \/ \E name \in ProfileNames, relationship \in RelationshipType :
          UserCreatesProfile(name, relationship) /\ AtRestInLifecycle
    \/ \E category \in LogCategory :
          handleSave("RED", MaxSeverity, category) /\ UNCHANGED deletedVars
          /\ AtRestInLifecycle
    \/ \E profileId \in 1..MaxProfileRows :
          handleDeleteProfile(profileId) /\ AtRestInLifecycle

SpecLifecycle == InitLifecycle /\ [][NextLifecycle]_vars

(***************************************************************************)
(* The operations that write a name: startup with its migration on a file  *)
(* an earlier version may have left, createProfile, the rename of          *)
(* handleSaveEdit and the Logger's save.  Nothing is deleted.              *)
(***************************************************************************)
NextNaming ==
    \/ (getDatabase /\ UNCHANGED deletedVars /\ AtRestInLifecycle)
    \/ (AppRestart /\ UNCHANGED deletedVars /\ AtRestInLifecycle)
    \/ \E name \in ProfileNames, relationship \in RelationshipType :
          UserCreatesProfile(name, relationship) /\ AtRestInLifecycle
    \/ \E profileId \in 1..MaxProfileRows, editName \in NameInputs,
          editRelationship \in RelationshipType :
          handleSaveEdit(profileId, editName, editRelationship) /\ AtRestInLifecycle
    \/ \E e \in LoggedEntries, category \in LogCategory :
          handleSave(e[1], e[2], category) /\ UNCHANGED deletedVars /\ AtRestInLifecycle

SpecNaming == InitOpen /\ [][NextNaming]_vars

(***************************************************************************)
(* The screens that add profiles and logs and export reports, with the     *)
(* checkLimit calls they make (ProfilesScreen, DashboardScreen,            *)
(* LoggerModal, VaultScreen, ProfileDetailScreen).  The tier is the one    *)
(* RevenueCat answers with throughout the session.  The file is a new one  *)
(* or one that holds a profile and one log less than the free tier's       *)
(* limit; a session adds at most MaxLogRows logs.                          *)
(***************************************************************************)
BusyLogs == FREE_LIMITS.maxLogs.n - 1
MaxScreenProfiles == FREE_LIMITS.maxProfiles.n + 1

BusyFile ==
    [profiles |-> {[id |-> 1, name |-> "Alex", relationship |-> "Partner", created_at |-> 0]},
     logs |-> {[id |-> i, timestamp |-> 0, person |-> "Alex", profile_id |-> <<1>>,
                type |-> "RED", severity |-> 10,
                category |-> CHOOSE c \in LogCategory : TRUE, notes |-> NULL] :
                  i \in 1..BusyLogs},
     seq |-> [profiles |-> 1, logs |-> BusyLogs]]

NewFile == [profiles |-> {}, logs |-> {}, seq |-> [profiles |-> 0, logs |-> 0]]

WithinSession(D) ==
    /\ D.seq.profiles <= MaxScreenProfiles
    /\ \/ D.seq.logs <= MaxLogRows
       \/ BusyLogs <= D.seq.logs /\ D.seq.logs <= BusyLogs + MaxLogRows

\* what the user may type into the name field of either modal
TypedNames == NameInputs \cup {"Kim"}

Tabs == {"Dashboard", "Profiles", "Vault", "ProfileDetail"}

InitScreens ==
    /\ \E file \in {NewFile, BusyFile} :
          profiles = file.profiles /\ logs = file.logs /\ sqlite_sequence = file.seq
    /\ foreign_keys = FALSE
    /\ db = NULL /\ now = 0 /\ result = "none"
    /\ customerInfo \in CustomerInfos /\ lastApiCall = NoCall
    /\ screen = "Launching" /\ limitCheck = NoCheck
    /\ lastInsert = NoInsert /\ lastReport = NoReport
    /\ NoCallers /\ NothingDeleted /\ NoStore /\ NoLock
    /\ logsArg = << >> /\ vibeScore = 0 /\ scoreArg = 0 /\ healthStatus = "Thriving"
    /\ dashboard = DashboardMounted
    /\ orderOfTies = "ASC" /\ returned = NoReturn

AtRestInScreens == UNCHANGED <<scoringVars, readVars, serviceVars, openVars, deletedVars,
                               storeVars, authVars, foreign_keys, now>>

\* useSubscriptionStore.checkLimit
checkLimit(action, currentCount) ==
    [action |-> action, currentCount |-> currentCount,
     value |-> canPerformAction(customerInfo, action, currentCount)]

\* the first screen's data load opens the database
Launch ==
    /\ screen = "Launching"
    /\ \E uniquePeople \in Orders(UnlinkedPeople(Database)) :
          Store(initializeDatabase(Database, uniquePeople, now))
    /\ db' = OPEN /\ result' = "ok"
    /\ screen' = "Dashboard"
    /\ UNCHANGED <<limitCheck, lastInsert, lastReport>>
    /\ AtRestInScreens

\* the drawer and the tab bar; a profile's detail screen needs a profile
Navigate(to) ==
    /\ screen \in Tabs /\ to \in Tabs \ {screen}
    /\ to = "ProfileDetail" => profiles # {}
    /\ screen' = to
    /\ limitCheck' = NoCheck
    /\ UNCHANGED <<profiles, logs, sqlite_sequence, db, result, lastInsert, lastReport>>
    /\ AtRestInScreens

\* ProfilesScreen.handleAddProfilePress (136-156); profiles.length is the
\* list fetched when the screen took the focus
handleAddProfilePress ==
    /\ screen = "Profiles"
    /\ limitCheck' = checkLimit("addProfile", <<Cardinality(profiles)>>)
    /\ screen' = IF limitCheck'.value.allowed THEN "AddProfileModal" ELSE "Profiles"
    /\ UNCHANGED <<profiles, logs, sqlite_sequence, db, result, lastInsert, lastReport>>
    /\ AtRestInScreens

\* a screen's INSERT INTO profiles of the trimmed name; on success the modal
\* closes to `back`, on failure an alert is shown and the modal stays
InsertFromModal(modal, typed, relationship, back, checkAfter) ==
    /\ screen = modal
    /\ IF trim(typed) = ""
       THEN UNCHANGED <<profiles, logs, sqlite_sequence, result, screen, limitCheck,
                        lastInsert>>
       ELSE LET r == InsertProfile(Database, trim(typed), relationship, now)
            IN  /\ WithinSession(r.D) /\ Store(r.D) /\ result' = r.result
                /\ IF r.result = "ok"
                   THEN /\ screen' = back
                        /\ limitCheck' = checkAfter
                        /\ lastInsert' = [table |-> "profiles",
                                          countBefore |-> Cardinality(profiles),
                                          limitCheck |-> limitCheck]
                   ELSE UNCHANGED <<screen, limitCheck, lastInsert>>
    /\ UNCHANGED <<db, lastReport>>
    /\ AtRestInScreens

\* ProfilesScreen.handleAddProfile (99-130)
ProfilesScreenAdd(newName, newRelationship) ==
    InsertFromModal("AddProfileModal", newName, newRelationship, "Profiles", NoCheck)

\* the modal is dismissed
CloseModal ==
    /\ screen \in {"AddProfileModal", "NewProfileModal", "Logger"}
    /\ screen' = CASE screen = "AddProfileModal" -> "Profiles"
                   [] screen = "NewProfileModal" -> "Logger"
                   [] screen = "Logger"          -> "Dashboard"
    /\ limitCheck' = IF screen = "NewProfileModal" THEN limitCheck ELSE NoCheck
    /\ UNCHANGED <<profiles, logs, sqlite_sequence, db, result, lastInsert, lastReport>>
    /\ AtRestInScreens

\* DashboardScreen.handleFlagPress (174-197)
handleFlagPress ==
    /\ screen = "Dashboard"
    /\ limitCheck' = checkLimit("addLog", <<Cardinality(logs)>>)
    /\ screen' = IF limitCheck'.value.allowed THEN "Logger" ELSE "Dashboard"
    /\ UNCHANGED <<profiles, logs, sqlite_sequence, db, result, lastInsert, lastReport>>
    /\ AtRestInScreens

\* LoggerModal: "Add New Person" opens the modal (part_001 469)
OpenNewProfileModal ==
    /\ screen = "Logger"
    /\ screen' = "NewProfileModal"
    /\ UNCHANGED <<profiles, logs, sqlite_sequence, db, result, limitCheck, lastInsert,
                   lastReport>>
    /\ AtRestInScreens

\* LoggerModal.handleCreateProfile (part_001 126-155): createProfile, no
\* checkLimit
LoggerCreateProfile(newProfileName, newProfileRelationship) ==
    InsertFromModal("NewProfileModal", newProfileName, newProfileRelationship,
                    "Logger", limitCheck)

\* LoggerModal.handleSave (part_001 157-182) with the flag type pressed on
\* the Dashboard
LoggerSave(flagType, severity, category) ==
    /\ screen = "Logger"
    /\ \E selectedProfile \in profiles :
          LET r == InsertLog(Database, foreign_keys, now, selectedProfile.name,
                             <<selectedProfile.id>>, flagType, severity, category, NULL)
          IN  /\ WithinSession(r.D) /\ Store(r.D) /\ result' = r.result
              /\ IF r.result = "ok"
                 THEN /\ screen' = "Dashboard"
                      /\ limitCheck' = NoCheck
                      /\ lastInsert' = [table |-> "logs",
                                        countBefore |-> Cardinality(logs),
                                        limitCheck |-> limitCheck]
                 ELSE UNCHANGED <<screen, limitCheck, lastInsert>>
    /\ UNCHANGED <<db, lastReport>>
    /\ AtRestInScreens

\* DashboardScreen.handleExportReport (199-233)
DashboardExport ==
    /\ screen = "Dashboard"
    /\ limitCheck' = checkLimit("exportPDF", undefined)
    /\ lastReport' = IF limitCheck'.value.allowed /\ logs # {}
                     THEN [generator |-> "generateAndShareReport", screen |-> screen,
                           limitCheck |-> limitCheck']
                     ELSE lastReport
    /\ UNCHANGED <<profiles, logs, sqlite_sequence, db, result, screen, lastInsert>>
    /\ AtRestInScreens

\* VaultScreen.handleExportReport (155-171): no checkLimit
VaultExport ==
    /\ screen = "Vault"
    /\ lastReport' = IF logs # {}
                     THEN [generator |-> "generateAndShareReport", screen |-> screen,
                           limitCheck |-> limitCheck]
                     ELSE lastReport
    /\ UNCHANGED <<profiles, logs, sqlite_sequence, db, result, screen, limitCheck,
                   lastInsert>>
    /\ AtRestInScreens

\* ProfileDetailScreen.handleGenerateReport (386-430)
handleGenerateReport ==
    /\ screen = "ProfileDetail"
    /\ limitCheck' = checkLimit("exportPDF", undefined)
    /\ lastReport' = IF limitCheck'.value.allowed
                     THEN [generator |-> "generateReceiptsPDF", screen |-> screen,
                           limitCheck |-> limitCheck']
                     ELSE lastReport
    /\ UNCHANGED <<profiles, logs, sqlite_sequence, db, result, screen, lastInsert>>
    /\ AtRestInScreens

NextScreens ==
    \/ Launch
    \/ \E to \in Tabs : Navigate(to)
    \/ handleAddProfilePress
    \/ \E newName \in TypedNames, newRelationship \in RelationshipType :
          ProfilesScreenAdd(newName, newRelationship)
    \/ CloseModal
    \/ handleFlagPress
    \/ OpenNewProfileModal
    \/ \E newProfileName \in TypedNames, newProfileRelationship \in RelationshipType :
          LoggerCreateProfile(newProfileName, newProfileRelationship)
    \/ \E e \in LoggedEntries, category \in LogCategory : LoggerSave(e[1], e[2], category)
    \/ DashboardExport
    \/ VaultExport
    \/ handleGenerateReport

SpecScreens == InitScreens /\ [][NextScreens]_vars

(***************************************************************************)
(* useSubscriptionStore (src/src/state/subscriptionStore.ts).  A call runs *)
(* to its end in one step; which of its awaited calls throws is an input.  *)
(* RevenueCat's answer may change between calls.                           *)
(***************************************************************************)
InitialStore ==
    [tier |-> "free", limits |-> FREE_LIMITS, isLoading |-> FALSE, lastUpdated |-> NULL]

StoredTiers == {NULL} \cup {<<t>> : t \in {"free", "pro", "premium"}}

InitStore ==
    /\ store = InitialStore
    /\ cache \in StoredTiers
    /\ lastStoreCall = NoStoreCall
    /\ customerInfo \in CustomerInfos /\ lastApiCall = NoCall
    /\ profiles = {} /\ logs = {}
    /\ sqlite_sequence = [profiles |-> 0, logs |-> 0]
    /\ foreign_keys = FALSE /\ db = NULL /\ now = 0 /\ result = "none"
    /\ NoCallers /\ NothingDeleted /\ NoScreen /\ NoLock
    /\ logsArg = << >> /\ vibeScore = 0 /\ scoreArg = 0 /\ healthStatus = "Thriving"
    /\ dashboard = DashboardMounted
    /\ orderOfTies = "ASC" /\ returned = NoReturn

AtRestInStore ==
    UNCHANGED <<scoringVars, dbVars, readVars, serviceVars, openVars, deletedVars, screenVars,
                authVars>>

\* the outcome of a call: the store and the cache it leaves
Completed(fn, error, st, item) ==
    /\ store' = [st EXCEPT !.isLoading = FALSE]
    /\ cache' = item
    /\ lastStoreCall' = [fn |-> fn, error |-> error,
                         before |-> [tier |-> store.tier, limits |-> store.limits]]
    /\ AtRestInStore

\* initialize (34-70)
initialize(getItemThrows, configureThrows, setItemThrows) ==
    LET fallback == [store EXCEPT !.tier = "free", !.limits = FREE_LIMITS]
        cached   == IF cache # NULL
                    THEN [store EXCEPT !.tier = cache[1], !.limits = getLimits(customerInfo)]
                    ELSE store
        actual   == [cached EXCEPT !.tier = getCurrentTier(customerInfo),
                                   !.limits = getLimits(customerInfo),
                                   !.lastUpdated = <<now>>]
    IN  IF getItemThrows THEN Completed("initialize", TRUE, fallback, cache)
        ELSE IF configureThrows
        THEN Completed("initialize", TRUE,
                       [cached EXCEPT !.tier = "free", !.limits = FREE_LIMITS], cache)
        ELSE IF setItemThrows
        THEN Completed("initialize", TRUE,
                       [actual EXCEPT !.tier = "free", !.limits = FREE_LIMITS], cache)
        ELSE Completed("initialize", FALSE, actual, <<actual.tier>>)

\* refreshSubscription (72-91)
refreshSubscription(setItemThrows) ==
    LET fetched == [store EXCEPT !.tier = getCurrentTier(customerInfo),
                                 !.limits = getLimits(customerInfo),
                                 !.lastUpdated = <<now>>]
    IN  IF setItemThrows
        THEN Completed("refreshSubscription", TRUE, fetched, cache)
        ELSE Completed("refreshSubscription", FALSE, fetched, <<fetched.tier>>)

NextStore ==
    \/ CustomerInfoChanges
    \/ \E getItemThrows, configureThrows, setItemThrows \in BOOLEAN :
          initialize(getItemThrows, configureThrows, setItemThrows)
    \/ \E setItemThrows \in BOOLEAN : refreshSubscription(setItemThrows)

SpecStore == InitStore /\ [][NextStore]_vars

(***************************************************************************)
(* The PIN lock: useAuthStore (src/unnamed/part_004), LockScreen and       *)
(* SetupPinScreen.  LockScreen starts loadPin when it mounts; the read of  *)
(* AsyncStorage resolves at some later moment, and the user may press keys *)
(* before it does.  A PIN is a sequence of PinLength digits.               *)
(***************************************************************************)
PinLength == 4
Digits == {1, 2}

\* what AsyncStorage may hold when the app is launched
InstalledPins == {NULL, << <<1, 1, 1, 1>> >>, << <<1, 2, 2, 1>> >>}

LockMounted ==
    [route |-> "Lock", loadPin |-> "pending", enteredPin |-> << >>,
     step |-> "enter", firstPin |-> << >>, confirmPin |-> << >>]

InitAuth ==
    /\ pinStorage \in InstalledPins
    /\ authStore = [isAuthenticated |-> FALSE, pin |-> NULL]
    /\ pinScreens = LockMounted
    /\ pinHistory = [installed |-> pinStorage, unlockedOn |-> "none", unlockedWith |-> NULL]
    /\ store = << >> /\ cache = NULL /\ lastStoreCall = NoStoreCall
    /\ customerInfo = NoEntitlements /\ lastApiCall = NoCall
    /\ profiles = {} /\ logs = {}
    /\ sqlite_sequence = [profiles |-> 0, logs |-> 0]
    /\ foreign_keys = FALSE /\ db = NULL /\ now = 0 /\ result = "none"
    /\ NoCallers /\ NothingDeleted /\ NoScreen
    /\ logsArg = << >> /\ vibeScore = 0 /\ scoreArg = 0 /\ healthStatus = "Thriving"
    /\ dashboard = DashboardMounted
    /\ orderOfTies = "ASC" /\ returned = NoReturn

AtRestInAuth ==
    UNCHANGED <<scoringVars, dbVars, readVars, serviceVars, openVars, deletedVars, screenVars,
                storeVars>>

\* loadPin (part_004 28-31): AsyncStorage.getItem resolves, set({ pin })
LoadPinResolves ==
    /\ pinScreens.loadPin = "pending"
    /\ authStore' = [authStore EXCEPT !.pin = pinStorage]
    /\ pinScreens' = [pinScreens EXCEPT !.loadPin = "done"]
    /\ UNCHANGED <<pinStorage, pinHistory>>
    /\ AtRestInAuth

\* LockScreen.handleNumberPress (37-62)
LockNumberPress(num) ==
    /\ pinScreens.route = "Lock"
    /\ Len(pinScreens.enteredPin) < PinLength
    /\ LET newPin == Append(pinScreens.enteredPin, num)
       IN  IF Len(newPin) # PinLength
           THEN /\ pinScreens' = [pinScreens EXCEPT !.enteredPin = newPin]
                /\ UNCHANGED <<authStore, pinHistory>>
           ELSE IF authStore.pin = NULL
           THEN /\ pinScreens' = [pinScreens EXCEPT !.route = "SetupPin",
                                                    !.enteredPin = << >>]
                /\ UNCHANGED <<authStore, pinHistory>>
           ELSE IF <<newPin>> = authStore.pin
           THEN /\ authStore' = [authStore EXCEPT !.isAuthenticated = TRUE]
                /\ pinScreens' = [pinScreens EXCEPT !.route = "Dashboard",
                                                    !.enteredPin = << >>]
                /\ pinHistory' = [pinHistory EXCEPT !.unlockedOn = "Lock",
                                                    !.unlockedWith = <<newPin>>]
           ELSE /\ pinScreens' = [pinScreens EXCEPT !.enteredPin = << >>]
                /\ UNCHANGED <<authStore, pinHistory>>
    /\ UNCHANGED pinStorage
    /\ AtRestInAuth

\* LockScreen.handleDelete (64-67)
LockDelete ==
    /\ pinScreens.route = "Lock"
    /\ pinScreens.enteredPin # << >>
    /\ pinScreens' = [pinScreens EXCEPT !.enteredPin = Front(@)]
    /\ UNCHANGED <<pinStorage, authStore, pinHistory>>
    /\ AtRestInAuth

\* SetupPinScreen.handleNumberPress (32-58), with setPin (part_004 23-26)
SetupNumberPress(num) ==
    /\ pinScreens.route = "SetupPin"
    /\ LET currentPin == IF pinScreens.step = "enter" THEN pinScreens.firstPin
                         ELSE pinScreens.confirmPin
           newPin == Append(currentPin, num)
       IN  /\ Len(currentPin) < PinLength
           /\ IF pinScreens.step = "enter"
              THEN /\ pinScreens' = [pinScreens EXCEPT
                                        !.firstPin = newPin,
                                        !.step = IF Len(newPin) = PinLength
                                                 THEN "confirm" ELSE "enter"]
                   /\ UNCHANGED <<pinStorage, authStore, pinHistory>>
              ELSE IF Len(newPin) # PinLength
              THEN /\ pinScreens' = [pinScreens EXCEPT !.confirmPin = newPin]
                   /\ UNCHANGED <<pinStorage, authStore, pinHistory>>
              ELSE IF newPin = pinScreens.firstPin
              THEN /\ pinStorage' = <<newPin>>
                   /\ authStore' = [isAuthenticated |-> TRUE, pin |-> <<newPin>>]
                   /\ pinScreens' = [pinScreens EXCEPT !.route = "Dashboard",
                                                       !.confirmPin = newPin]
                   /\ pinHistory' = [pinHistory EXCEPT !.unlockedOn = "SetupPin",
                                                       !.unlockedWith = <<newPin>>]
              ELSE /\ pinScreens' = [pinScreens EXCEPT !.firstPin = << >>,
                                                       !.confirmPin = << >>,
                                                       !.step = "enter"]
                   /\ UNCHANGED <<pinStorage, authStore, pinHistory>>
    /\ AtRestInAuth

\* SetupPinScreen.handleDelete (60-63)
SetupDelete ==
    /\ pinScreens.route = "SetupPin"
    /\ pinScreens' = IF pinScreens.step = "enter"
                     THEN [pinScreens EXCEPT !.firstPin = IF @ = << >> THEN @ ELSE Front(@)]
                     ELSE [pinScreens EXCEPT !.confirmPin = IF @ = << >> THEN @ ELSE Front(@)]
    /\ pinScreens' # pinScreens
    /\ UNCHANGED <<pinStorage, authStore, pinHistory>>
    /\ AtRestInAuth

\* logout (part_004 36) from the Dashboard: the navigator mounts LockScreen
\* again, which starts loadPin
Logout ==
    /\ authStore.isAuthenticated
    /\ authStore' = [authStore EXCEPT !.isAuthenticated = FALSE]
    /\ pinScreens' = LockMounted
    /\ pinHistory' = [installed |-> pinStorage, unlockedOn |-> "none", unlockedWith |-> NULL]
    /\ UNCHANGED pinStorage
    /\ AtRestInAuth

NextAuth ==
    \/ LoadPinResolves
    \/ \E num \in Digits : LockNumberPress(num)
    \/ LockDelete
    \/ \E num \in Digits : SetupNumberPress(num)
    \/ SetupDelete
    \/ Logout

SpecAuth == InitAuth /\ [][NextAuth]_vars

(***************************************************************************)
(* The screens' scoring as a state machine.  ProfileDetailScreen renders   *)
(* with a list of logs grown one entry at a time and computes vibeScore    *)
(* and healthStatus with its local functions; its getHealthStatus is also  *)
(* applied to every score; DashboardScreen.loadData runs on a list grown   *)
(* the same way.                                                           *)
(***************************************************************************)
InitScreenScoring ==
    /\ logsArg = << >>
    /\ vibeScore = ProfileDetail_calculateVibeScore(<< >>)
    /\ scoreArg = vibeScore
    /\ healthStatus = ProfileDetail_getHealthStatus(scoreArg)
    /\ dashboard = DashboardMounted
    /\ profiles = {} /\ logs = {}
    /\ sqlite_sequence = [profiles |-> 0, logs |-> 0]
    /\ foreign_keys = FALSE /\ db = NULL /\ now = 0 /\ result = "none"
    /\ orderOfTies = "ASC" /\ returned = NoReturn
    /\ customerInfo = NoEntitlements /\ lastApiCall = NoCall
    /\ AppAtRest

\* ProfileDetailScreen.tsx 464-465 with one more log in the list
ProfileDetailRenders ==
    /\ Len(logsArg) < MaxLogsArg
    /\ dashboard = DashboardMounted
    /\ scoreArg = vibeScore
    /\ \E t \in LogType, s \in Severity :
          /\ logsArg' = Append(logsArg, [type |-> t, severity |-> s])
          /\ vibeScore' = ProfileDetail_calculateVibeScore(logsArg')
          /\ scoreArg' = vibeScore'
          /\ healthStatus' = ProfileDetail_getHealthStatus(scoreArg')
    /\ UNCHANGED dashboard
    /\ UNCHANGED <<dbVars, readVars, serviceVars, appVars>>

\* ProfileDetailScreen's getHealthStatus(score)
ProfileDetailGetHealthStatus ==
    /\ logsArg = << >>
    /\ dashboard = DashboardMounted
    /\ \E score \in ScoreInputs :
          /\ scoreArg' = score
          /\ healthStatus' = ProfileDetail_getHealthStatus(score)
    /\ UNCHANGED <<logsArg, vibeScore, dashboard>>
    /\ UNCHANGED <<dbVars, readVars, serviceVars, appVars>>

\* DashboardScreen.loadData with one more recent log
DashboardLoadData ==
    /\ Len(dashboard.recentLogs) < MaxLogsArg
    /\ logsArg = << >> /\ scoreArg = 0
    /\ \E t \in LogType, s \in Severity :
          LET recent == Append(dashboard.recentLogs, [type |-> t, severity |-> s])
              score  == calculateVibeScore(recent)
          IN  dashboard' = [recentLogs |-> recent, vibeScore |-> score,
                            climate |-> Dashboard_climate(recent, score)]
    /\ UNCHANGED <<logsArg, vibeScore, scoreArg, healthStatus>>
    /\ UNCHANGED <<dbVars, readVars, serviceVars, appVars>>

NextScreenScoring ==
    \/ ProfileDetailRenders
    \/ ProfileDetailGetHealthStatus
    \/ DashboardLoadData

SpecScreenScoring == InitScreenScoring /\ [][NextScreenScoring]_vars

(***************************************************************************)
(* Properties of the scoring engine, checked under SpecScoring.            *)
(***************************************************************************)

\* the score in exact arithmetic: 100 * S / (10 * count) with
\* S = RED - GREEN + YELLOW / 2, rounded half up, clamped to [0, 100]
ExactVibeScore(logsList) ==
    IF Len(logsList) = 0 THEN 0
    ELSE LET h == toxicitySumHalves(logsList)      \* 2 * S
             n == Len(logsList)
         IN  Max(0, Min(100, (10 * h + n) \div (2 * n)))

\* C1: for every sequence of logs, calculateVibeScore returns 0 when it is
\* empty and otherwise the round-half-up of the exact 100 * S / (10 * count),
\* clamped to [0, 100].
C1_ScoreIsExactRoundHalfUp == vibeScore = ExactVibeScore(logsArg)

\* C2: calculateVibeScore returns an integer in [0, 100]; a sequence of
\* GREEN entries only scores 0; and the percentage never exceeds 100 before
\* it is clamped.
C2_ScoreWithinRange ==
    /\ vibeScore = calculateVibeScore(logsArg)
    /\ vibeScore \in 0..100
    /\ (\A i \in 1..Len(logsArg) : logsArg[i].type = "GREEN") => vibeScore = 0
    /\ logsArg # << >> => MathRound(toxicityPercentage(logsArg)) <= 100

\* C2 witness: two RED entries of severity 10 were scored, and scored 100
C2_MaximalScored ==
    /\ Len(logsArg) = 2
    /\ \A i \in 1..Len(logsArg) : logsArg[i] = [type |-> "RED", severity |-> 10]
    /\ vibeScore = 100

\* C3: getHealthStatus maps score > 75 to Critical, 50..75 to Toxic,
\* 25..49 to Concerning, 1..24 to Stable and 0 to Thriving.
C3_HealthPartition ==
    /\ healthStatus = "Critical"   <=> scoreArg > 75
    /\ healthStatus = "Toxic"      <=> (50 <= scoreArg /\ scoreArg <= 75)
    /\ healthStatus = "Concerning" <=> (25 <= scoreArg /\ scoreArg < 50)
    /\ healthStatus = "Stable"     <=> (0 < scoreArg /\ scoreArg < 25)
    /\ healthStatus = "Thriving"   <=> scoreArg = 0

\* C3 witness: the boundary score 75 was classified, as Toxic
C3_Boundary75 == scoreArg = 75 /\ healthStatus = "Toxic"

(***************************************************************************)
(* Properties of the persistence layer, checked under Spec.                *)
(***************************************************************************)
ProfileIds == 1..MaxProfileRows
Unique == "SQLITE_CONSTRAINT_UNIQUE"

\* C4: in every reachable state, createProfile with a name an existing
\* profile has, and updateProfile of an existing profile to a name a
\* different profile has, fail with the unique-constraint error and leave
\* the profiles and logs tables as they were.
C4_DuplicateNameFails ==
    /\ \A name \in ProfileNames, relationship \in RelationshipType :
          (\E p \in profiles : p.name = name) =>
             LET r == InsertProfile(Database, name, relationship, now)
             IN  r.result = Unique /\ r.D = Database
    /\ \A newName \in NameInputs, relationship \in RelationshipType :
          (\E p \in profiles : p.name = trim(newName)) =>
             LET r == InsertProfile(Database, trim(newName), relationship, now)
             IN  r.result = Unique /\ r.D = Database
    /\ \A id \in ProfileIds, name \in ProfileNames,
          relationship \in OptionalOf(RelationshipType) :
          ( /\ \E p \in profiles : p.id = id
            /\ \E q \in profiles : q.id # id /\ q.name = name ) =>
             LET r == UpdateProfile(Database, id, <<name>>, relationship)
             IN  r.result = Unique /\ r.D = Database

\* C4 witness: a call has just failed on the unique constraint while two
\* profiles are stored
C4_DuplicateRefused == result = Unique /\ Cardinality(profiles) = 2

\* C5: no two profile rows have the same name.
C5_NamesUnique == \A p, q \in profiles : p.name = q.name => p = q

\* C5 witness: two profiles are stored, one of them created by the migration
C5_TwoProfiles ==
    /\ Cardinality(profiles) = 2
    /\ \E p \in profiles : p.relationship = "Unknown"
    /\ \E p \in profiles : p.relationship # "Unknown"

\* C6: deleteProfile(id) removes exactly the profile row with that id and
\* deletes no log: every log that referenced it is kept with its profile
\* reference absent and its other fields unchanged; all else is untouched.
C6_DeleteDetachesLogs ==
    [][ \A id \in ProfileIds :
          ((\E p \in profiles : p.id = id) /\ deleteProfile(id))
          => /\ profiles' = {p \in profiles : p.id # id}
             /\ logs' = {IF l.profile_id = <<id>>
                         THEN [l EXCEPT !.profile_id = NULL] ELSE l : l \in logs}
      ]_vars

\* C7: every log's profile reference is absent or the id of a profile that
\* currently exists.
C7_NoDanglingReference ==
    \A l \in logs : l.profile_id = NULL \/ \E p \in profiles : <<p.id>> = l.profile_id

\* C8: in every reachable state, insertLog with a severity outside 1..10 or
\* a type other than GREEN, YELLOW, RED fails, stores no row and changes
\* nothing; and every stored log has a severity in 1..10 and one of the
\* three types.
C8_InvalidLogRejected ==
    /\ \A e \in EntryInputs, person \in ProfileNames,
          profile_id \in ProfileIdInputs, category \in LogCategory,
          notes \in NotesInputs :
          (e[1] \notin LogType \/ e[2] \notin Severity) =>
             LET r == InsertLog(Database, foreign_keys, now, person,
                                NumberOrNull(profile_id), e[1], e[2], category,
                                StringOrNull(notes))
             IN  r.result = "SQLITE_CONSTRAINT_CHECK" /\ r.D = Database
    /\ \A l \in logs : l.type \in LogType /\ l.severity \in Severity

\* C8 witness: an insertLog has just been refused by a CHECK constraint
\* while a log is stored
C8_InvalidRefused == result = "SQLITE_CONSTRAINT_CHECK" /\ logs # {}

\* the database after one more run of the startup migration
Migrated(D) ==
    {initializeDatabase(D, o, now) : o \in Orders(UnlinkedPeople(D))}

\* C9: running the startup migration twice in a row yields the same profiles
\* and logs as running it once.
C9_MigrationIdempotent ==
    \A D1 \in Migrated(Database) : Migrated(D1) = {D1}

\* C9 witness: the migration has run and linked two logs to a profile it created
C9_MigratedTwoLogs ==
    /\ db = OPEN
    /\ \E p \in profiles :
          /\ p.relationship = "Unknown"
          /\ Cardinality({l \in logs : l.profile_id = <<p.id>>}) = 2

\* C10: after the startup migration no log has an absent profile reference;
\* each previously unlinked log references the one profile named as its
\* person; a profile that had that name is reused; the profiles created have
\* relationship "Unknown", one per unlinked person name that had no profile.
C10_MigrationLinksAll ==
    \A D1 \in Migrated(Database) :
       LET missing == {n \in UnlinkedPeople(Database) :
                          ~\E p \in profiles : p.name = n}
           new     == D1.profiles \ profiles
       IN  /\ \A l \in D1.logs : l.profile_id # NULL
           /\ \A l \in logs :
                 l.profile_id = NULL =>
                    \E p \in D1.profiles :
                       /\ p.name = l.person
                       /\ \A q \in D1.profiles : q.name = l.person => q = p
                       /\ [l EXCEPT !.profile_id = <<p.id>>] \in D1.logs
           /\ profiles \subseteq D1.profiles
           /\ \A p \in new : p.relationship = "Unknown" /\ p.name \in missing
           /\ Cardinality(new) = Cardinality(missing)
           /\ Cardinality(D1.logs) = Cardinality(logs)

\* C10 witness: the migration has created a profile for each of two people
C10_TwoPeopleMigrated ==
    /\ db = OPEN
    /\ Cardinality({p \in profiles : p.relationship = "Unknown"}) = 2
    /\ \A p \in profiles : \E l \in logs : l.profile_id = <<p.id>> /\ l.person = p.name

\* C11: the startup migration changes nothing when no log has an absent
\* profile reference; in every case it keeps the profile reference of every
\* linked log, every pre-existing profile row and every log field other than
\* the profile reference, and it deletes no row.
C11_MigrationFrame ==
    \A D1 \in Migrated(Database) :
       /\ (\A l \in logs : l.profile_id # NULL) => D1 = Database
       /\ \A l \in logs : l.profile_id # NULL => l \in D1.logs
       /\ profiles \subseteq D1.profiles
       /\ \A l \in logs :
             \E m \in D1.logs : [m EXCEPT !.profile_id = l.profile_id] = l
       /\ Cardinality(D1.logs) = Cardinality(logs)

\* C11 witness: the migration has run over a database that held a linked
\* log of a person and an unlinked log of the same person; the linked one
\* still references another person's profile
C11_LinkedLogKept ==
    /\ db = OPEN
    /\ \E l, m \in logs, p, q \in profiles :
          /\ l # m /\ l.person = m.person /\ p # q
          /\ l.profile_id = <<p.id>> /\ p.name # l.person
          /\ m.profile_id = <<q.id>> /\ q.name = m.person
          /\ q.relationship = "Unknown"

(***************************************************************************)
(* Properties of the persistence layer that involve the lookups, checked   *)
(* under Spec.                                                             *)
(***************************************************************************)
Range(seq) == {seq[i] : i \in 1..Len(seq)}

\* the lookup of a profile's logs as stated: by profile reference, and by
\* the profile's current name if and only if that yields no row
LookupWithFallback(profileId) ==
    LET p      == CHOOSE q \in profiles : q.id = profileId
        byId   == OrderByTimestampDesc({l \in logs : l.profile_id = <<profileId>>},
                                       orderOfTies)
        byName == OrderByTimestampDesc({l \in logs : l.person = p.name},
                                       orderOfTies)
    IN  IF byId = << >> THEN byName ELSE byId

\* C12: for an existing profile, getLogsByProfileId and the
\* ProfileDetailScreen fetch both return, newest first, the logs that
\* reference the profile, or the logs of its current name if and only if
\* none references it; so the two return the same logs.
C12_LookupFallsBackToName ==
    \A p \in profiles :
       /\ fetchProfileData(Database, orderOfTies, p.id).logs = LookupWithFallback(p.id)
       /\ getLogsByProfileId(Database, orderOfTies, p.id) = LookupWithFallback(p.id)

\* C13: no log appears in the log lists of two distinct existing profiles,
\* a profile's log list being what the profile-logs lookup with its
\* fallback by person name returns.
C13_LogInOneProfileList ==
    \A p, q \in profiles :
       p # q =>
          Range(fetchProfileData(Database, orderOfTies, p.id).logs)
          \cap Range(fetchProfileData(Database, orderOfTies, q.id).logs) = {}

\* the ids of the profiles deleted so far: AUTOINCREMENT has issued the ids
\* 1..sqlite_sequence.profiles, and a row's id never changes
DeletedProfileIds == (1..sqlite_sequence.profiles) \ {p.id : p \in profiles}

\* C14: once a profile has been deleted, in every later state getAllProfiles
\* does not list it, getProfileById returns null for its id and
\* getLogsByProfileId returns the empty sequence for its id; its id is not
\* given to a later profile.
C14_DeletedProfileStaysGone ==
    /\ \A p \in profiles : p.id \in 1..sqlite_sequence.profiles
    /\ \A id \in DeletedProfileIds :
          /\ \A p \in Range(getAllProfiles(Database, orderOfTies)) : p.id # id
          /\ getProfileById(Database, id) = NULL
          /\ getLogsByProfileId(Database, orderOfTies, id) = << >>

\* C18: updateProfile(id, updates) changes only the supplied fields of the
\* profile with that id; its id and created_at, every other profile and
\* every log row stay as they were; with no field supplied the call
\* succeeds and the database is unchanged.
C18_UpdateFrame ==
    \A id \in ProfileIds, name \in OptionalOf(ProfileNames),
       relationship \in OptionalOf(RelationshipType) :
       LET r == updateProfileOn(Database, id, name, relationship)
       IN  /\ r.D.logs = logs
           /\ r.D.seq = sqlite_sequence
           /\ \A p \in profiles : p.id # id => p \in r.D.profiles
           /\ \A q \in r.D.profiles : q.id # id => q \in profiles
           /\ \A p \in profiles :
                 p.id = id =>
                    \E q \in r.D.profiles :
                       /\ q.id = id /\ q.created_at = p.created_at
                       /\ name = undefined => q.name = p.name
                       /\ relationship = undefined => q.relationship = p.relationship
                       /\ \A q2 \in r.D.profiles : q2.id = id => q2 = q
           /\ (\E q \in r.D.profiles : q.id = id) => \E p \in profiles : p.id = id
           /\ (name = undefined /\ relationship = undefined) =>
                 r.result = "ok" /\ r.D = Database

\* C18 witness: a profile created by the migration has been given a
\* relationship and a new name, and its log still carries the old name
C18_RenamedKeepsLogs ==
    /\ result = "ok"
    /\ \E p \in profiles, l \in logs :
          /\ l.profile_id = <<p.id>> /\ l.person # p.name
          /\ p.relationship = "Partner"
          /\ \E q \in profiles : q.relationship = "Unknown"

(***************************************************************************)
(* Properties of the queries, checked under SpecQueries.                   *)
(***************************************************************************)
NewestFirst(rows) ==
    \A i, j \in 1..Len(rows) : i < j => rows[i].timestamp >= rows[j].timestamp

NoRepeats(rows) == \A i, j \in 1..Len(rows) : i # j => rows[i] # rows[j]

\* C15: getAllLogs returns every stored log exactly once, newest first;
\* getRecentLogs(limit), limit >= 0, returns at most limit stored logs,
\* newest first, and no log left out is strictly newer than one returned.
C15_LogsNewestFirst ==
    /\ returned.op = "getAllLogs" =>
          /\ Range(returned.value) = logs
          /\ NoRepeats(returned.value)
          /\ NewestFirst(returned.value)
    /\ returned.op = "getRecentLogs" =>
          /\ Len(returned.value) <= returned.arg
          /\ Len(returned.value) = Min(returned.arg, Cardinality(logs))
          /\ Range(returned.value) \subseteq logs
          /\ NoRepeats(returned.value)
          /\ NewestFirst(returned.value)
          /\ \A out \in logs \ Range(returned.value), kept \in Range(returned.value) :
                out.timestamp <= kept.timestamp

\* C15 witness: getRecentLogs(1) has returned the newer of two logs, which
\* was stored first or second
C15_NewerOfTwoReturned ==
    /\ returned.op = "getRecentLogs" /\ returned.arg = 1
    /\ Len(returned.value) = 1
    /\ \E out \in logs : out.timestamp < returned.value[1].timestamp

Reverse(seq) == [i \in 1..Len(seq) |-> seq[Len(seq) + 1 - i]]

\* C16: getProfileStats(id) returns null exactly when no profile has the
\* id; otherwise totalLogs is the number of logs that reference the profile
\* and the sum of the three counts, vibeScore is calculateVibeScore of those
\* logs, healthStatus is getHealthStatus(vibeScore), and lastFlagDate is
\* their greatest timestamp, null exactly when there is none.
C16_ProfileStats ==
    returned.op = "getProfileStats" =>
       LET id   == returned.arg
           own  == {l \in logs : l.profile_id = <<id>>}
       IN  /\ returned.value = NULL <=> ~\E p \in profiles : p.id = id
           /\ returned.value # NULL =>
                 LET stats == returned.value[1]
                 IN  /\ stats.profile \in profiles /\ stats.profile.id = id
                     /\ stats.totalLogs = Cardinality(own)
                     /\ stats.totalLogs
                           = stats.redCount + stats.yellowCount + stats.greenCount
                     /\ stats.redCount = Cardinality({l \in own : l.type = "RED"})
                     /\ stats.yellowCount = Cardinality({l \in own : l.type = "YELLOW"})
                     /\ stats.greenCount = Cardinality({l \in own : l.type = "GREEN"})
                     /\ stats.vibeScore
                           = calculateVibeScore(Reverse(OrderByTimestampDesc(own, orderOfTies)))
                     /\ stats.healthStatus = getHealthStatus(stats.vibeScore)
                     /\ stats.lastFlagDate = NULL <=> stats.totalLogs = 0
                     /\ \A l \in own :
                           /\ stats.lastFlagDate # NULL
                           /\ l.timestamp <= stats.lastFlagDate[1]
                     /\ stats.lastFlagDate # NULL =>
                           \E l \in own : l.timestamp = stats.lastFlagDate[1]

\* C16 witness: the statistics of a profile with a RED and a YELLOW log
\* saved at different times have been returned
C16_StatsOfTwoLogs ==
    /\ returned.op = "getProfileStats"
    /\ returned.value # NULL
    /\ returned.value[1].totalLogs = 2
    /\ returned.value[1].redCount = 1 /\ returned.value[1].yellowCount = 1
    /\ returned.value[1].lastFlagDate = <<1>>
    /\ \E l \in logs : l.timestamp = 0

\* five profiles with 0, 2, 5, 1 and 3 logs
ExampleCounts == <<0, 2, 5, 1, 3>>
ExampleNames == <<"Alex", "Sam", "Kim", "Lee", "Pat">>
ExampleOwner == <<2, 2, 3, 3, 3, 3, 3, 4, 5, 5, 5>>
ExampleDatabase ==
    [profiles |-> {[id |-> i, name |-> ExampleNames[i], relationship |-> "Partner",
                    created_at |-> 0] : i \in 1..5},
     logs     |-> {[id |-> k, timestamp |-> k, person |-> ExampleNames[ExampleOwner[k]],
                    profile_id |-> <<ExampleOwner[k]>>, type |-> "RED",
                    severity |-> 5, category |-> "Trust", notes |-> NULL] : k \in 1..11},
     seq      |-> [profiles |-> 5, logs |-> 11]]

LogCount(id) == Cardinality({l \in logs : l.profile_id = <<id>>})

TierRank(tier) == CASE tier = "free" -> 0 [] tier = "pro" -> 1 [] tier = "premium" -> 2

\* what the claim's table allows on a tier
AllowedByTier(tier, action, currentCount) ==
    CASE action = "addProfile" ->
           currentCount # undefined /\ (tier = "free" => currentCount[1] < 2)
      [] action = "addLog" ->
           currentCount # undefined /\ (tier = "free" => currentCount[1] < 25)
      [] action = "exportPDF" -> tier \in {"pro", "premium"}
      [] action = "useAI" -> tier = "premium"

\* C19: canPerformAction allows addProfile iff a count is given and is below
\* maxProfiles (2 on free, unbounded on pro and premium), addLog iff a count
\* is given and is below maxLogs (25 on free, unbounded above), exportPDF
\* iff the tier is pro or premium, useAI iff it is premium; every denial
\* carries a reason; what a tier allows every higher tier allows.
C19_AllowedByTier ==
    returned.op = "canPerformAction" =>
          /\ returned.value.allowed
                <=> AllowedByTier(getCurrentTier(customerInfo),
                                  returned.arg.action, returned.arg.currentCount)
          /\ ~returned.value.allowed => returned.value.reason # undefined
          /\ returned.value.allowed =>
                \A higher \in CustomerInfos :
                   TierRank(getCurrentTier(customerInfo)) <= TierRank(getCurrentTier(higher))
                   => canPerformAction(higher, returned.arg.action,
                                       returned.arg.currentCount).allowed

\* C19 witness: on the free tier addLog with 25 logs stored has been
\* refused with a reason
C19_FreeLogLimitMet ==
    /\ getCurrentTier(customerInfo) = "free"
    /\ returned.op = "canPerformAction" /\ returned.arg.action = "addLog"
    /\ returned.arg.currentCount = <<25>>
    /\ ~returned.value.allowed /\ returned.value.reason # undefined

\* C20: no AI service function calls the remote API with fewer than
\* MIN_LOGS_FOR_AI logs: analyzePersonBehavior, chatAboutPerson and
\* generateMonthlyReport each fail before the request when the log sequence
\* is shorter.
C20_NoCallBelowMinimum ==
    lastApiCall # NoCall => lastApiCall.logCount >= MIN_LOGS_FOR_AI

(***************************************************************************)
(* Properties of the opening of the database, checked under SpecOpen.      *)
(***************************************************************************)
\* C21: under any interleaving of concurrent getDatabase() callers the
\* database is opened and initialized at most once in the process, and no
\* caller is handed the handle before the initialization has completed.
C21_OpenedOnce ==
    /\ openCount <= 1
    /\ initCount <= 1
    /\ \A c \in Callers : received[c] # "uninitialized handle"

Gated(insert, action) ==
    /\ insert.limitCheck.action = action
    /\ insert.limitCheck.currentCount = <<insert.countBefore>>
    /\ insert.limitCheck.value.allowed

\* C23: while the tier is free there are never more than 2 profiles or more
\* than 25 logs, and every profile and every log a screen inserts follows a
\* canPerformAction check with the current count that returned allowed.
C23_FreeTierWithinLimits ==
    getCurrentTier(customerInfo) = "free" =>
       /\ Cardinality(profiles) <= 2
       /\ Cardinality(logs) <= 25
       /\ lastInsert.table = "profiles" => Gated(lastInsert, "addProfile")
       /\ lastInsert.table = "logs" => Gated(lastInsert, "addLog")

\* C24: a PDF report is generated only after canPerformAction("exportPDF")
\* returned allowed; on the free tier no export path reaches a generator.
C24_ReportOnlyWhenAllowed ==
    /\ lastReport # NoReport =>
          /\ lastReport.limitCheck.action = "exportPDF"
          /\ lastReport.limitCheck.value.allowed
    /\ getCurrentTier(customerInfo) = "free" => lastReport = NoReport

\* C25: a log's id, timestamp, person, type, severity and category never
\* change once it is created (and no new log takes an id issued before); of
\* an existing log only the notes change, by the notes edit, and the profile
\* reference, by the detach of deleteProfile and by the startup migration.
C25_LogFieldsFixed ==
    [][ /\ \A m \in logs' : (~\E l \in logs : l.id = m.id) => m.id > sqlite_sequence.logs
        /\ \A l \in logs : \A m \in logs' : m.id = l.id =>
              /\ m.timestamp = l.timestamp /\ m.person = l.person /\ m.type = l.type
              /\ m.severity = l.severity /\ m.category = l.category
              /\ m.profile_id # l.profile_id =>
                    \/ db = NULL /\ db' # NULL /\ l.profile_id = NULL
                    \/ /\ m.profile_id = NULL
                       /\ \E p \in profiles \ profiles' : <<p.id>> = l.profile_id
              /\ m.notes # l.notes =>
                    /\ db # NULL /\ db' = db /\ profiles' = profiles
                    /\ m.profile_id = l.profile_id
      ]_vars

\* C25 witness: a log whose notes were edited and whose profile was renamed
\* still names the person it was created with
C25_EditedLogOfRenamedProfile ==
    \E l \in logs : /\ l.notes # NULL
                    /\ \E p \in profiles : <<p.id>> = l.profile_id /\ p.name # l.person

(***************************************************************************)
(* Properties of the subscription store, checked under SpecStore.          *)
(***************************************************************************)
\* C26: a refreshSubscription that hit an error leaves the store's tier and
\* limits as they were before the call; an initialize that hit an error
\* leaves tier free and FREE_LIMITS; after either call isLoading is false.
C26_StoreKeptOnError ==
    /\ lastStoreCall.fn = "refreshSubscription" /\ lastStoreCall.error =>
          /\ store.tier = lastStoreCall.before.tier
          /\ store.limits = lastStoreCall.before.limits
    /\ lastStoreCall.fn = "initialize" /\ lastStoreCall.error =>
          /\ store.tier = "free"
          /\ store.limits = FREE_LIMITS
    /\ lastStoreCall.fn # "none" => ~store.isLoading

(***************************************************************************)
(* Properties of the queries over the life of a profile, checked under     *)
(* SpecLifecycle.                                                          *)
(***************************************************************************)
\* C27: every flagCount getTopProfilesByLogCount returns equals the number
\* of logs whose profile reference is that profile's id, which is totalLogs
\* of getProfileStats for the same profile, also when the query falls back
\* to the join by person name.
C27_FlagCountIsTotalLogs ==
    \A limit \in TopLimits :
       LET top == getTopProfilesByLogCount(Database, orderOfTies, limit)
       IN  \A i \in DOMAIN top :
              /\ top[i].flagCount = LogCount(top[i].id)
              /\ top[i].flagCount =
                    getProfileStats(Database, orderOfTies, top[i].id)[1].totalLogs

(***************************************************************************)
(* Properties of the names, checked under SpecNaming.                      *)
(***************************************************************************)
\* C28: in every state reached by createProfile, the rename, the Logger's
\* insertLog and the migration, every log with a profile reference has as
\* person the present name of the profile it references.
C28_PersonIsProfileName ==
    \A l \in logs : \A p \in profiles :
       l.profile_id = <<p.id>> => l.person = p.name

(***************************************************************************)
(* Properties of the PIN lock, checked under SpecAuth.                     *)
(***************************************************************************)
\* C29: when a PIN is stored, the app becomes authenticated only by an
\* entry on the LockScreen equal to the stored PIN, and the stored PIN is
\* not replaced, however loadPin and the key presses interleave.
C29_UnlockNeedsStoredPin ==
    pinHistory.installed # NULL =>
       IF authStore.isAuthenticated
       THEN pinHistory.unlockedWith = pinHistory.installed
       ELSE pinStorage = pinHistory.installed

(***************************************************************************)
(* Properties of the screens' scoring, checked under SpecScreenScoring.    *)
(***************************************************************************)
ClimateOf(status) ==
    CASE status = "Thriving"   -> "Angelic"
      [] status = "Stable"     -> "Healthy"
      [] status = "Concerning" -> "Concerning"
      [] status = "Toxic"      -> "Toxic"
      [] status = "Critical"   -> "CRITICAL: TOXIC"

\* C30: ProfileDetailScreen's calculateVibeScore and getHealthStatus return
\* what the functions of db.ts return, for every list of logs and every
\* score; the Dashboard's climate label is the image of
\* getHealthStatus(score) under Thriving -> Angelic, Stable -> Healthy,
\* Concerning -> Concerning, Toxic -> Toxic, Critical -> CRITICAL: TOXIC.
C30_ScreensAgreeWithEngine ==
    /\ vibeScore = calculateVibeScore(logsArg)
    /\ healthStatus = getHealthStatus(scoreArg)
    /\ dashboard.climate = ClimateOf(getHealthStatus(dashboard.vibeScore))

\* the profile screen has scored a full list with a GREEN entry as Stable
C30_MixedListScoredStable ==
    /\ Len(logsArg) = MaxLogsArg
    /\ \E i \in DOMAIN logsArg : logsArg[i].type = "GREEN"
    /\ vibeScore > 0 /\ scoreArg = vibeScore
    /\ healthStatus = "Stable"

=============================================================================
